---- MODULE Spec2Model ----
(***************************************************************************)
(* Content acquisition and incremental ingestion pipeline of bilibili-rag. *)
(*                                                                         *)
(*   app/services/content_fetcher.py  ContentFetcher.fetch_content         *)
(*   app/services/asr.py              ASRService.transcribe_url,           *)
(*                                    ASRService.transcribe_local_file     *)
(*   app/services/rag.py              RAGService.add_video_content,        *)
(*                                    RAGService.delete_video              *)
(*   app/routers/knowledge.py         _sync_folder, sync_folders,          *)
(*                                    _build_knowledge_base_task           *)
(*                                                                         *)
(* The specifications share the variables:                                 *)
(*   SpecFetch  one fetch_content call, over every combination of          *)
(*              failures of its collaborators;                             *)
(*   SpecAsr    one transcription call of either transport strategy;       *)
(*   SpecRag    add_video_content and delete_video calls on the store;     *)
(*   Spec       the sync engine: _sync_folder calls on a shared database   *)
(*              and vector store, one after another;                       *)
(*   SpecCache  concurrent syncs writing table video_cache;                *)
(*   SpecBatch  the two callers that sync a list of collections;           *)
(*   SpecUpdate the cache update of one video, applied in both orders;     *)
(*   SpecShared concurrent syncs of two collections that share a video;    *)
(*   SpecSession the syncs of one request in their shared session;         *)
(*   SpecWait   the wait for a transcription result (SpecWaitFair: every   *)
(*              status query returns);                                     *)
(*   SpecFetchAll  fetch_all_videos_content over a list of videos;         *)
(*   SpecIndex  concurrent syncs of two collections that both newly list   *)
(*              a video, with the vector store;                            *)
(*   SpecBuild  a build request that follows earlier syncs (SpecBatchFair: *)
(*              every step of the task that can be taken is taken).        *)
(***************************************************************************)
EXTENDS Integers, Sequences, FiniteSets, Bags, TLC

VARIABLES
    favorite_folders,   \* FavoriteFolder rows: media id -> row (id = 0: no row)
    favorite_videos,    \* FavoriteVideo rows: set of [folder_id, bvid]
    video_cache,        \* VideoCache rows: bvid -> row or NoRow
    vectorstore,        \* Chroma collection: bag of stored documents
    clock,              \* number of _sync_folder calls so far (datetime.utcnow)
    last,               \* the latest _sync_folder call: its inputs and its result
    fetch_env,          \* SpecFetch: the collaborators' behaviour for one call
    fetch_out,          \* SpecFetch: what fetch_content did (NoCall before)
    asr_env,            \* SpecAsr: the recognition service's behaviour for one call
    asr_out,            \* SpecAsr: what the transcription call did
    cache_rows,         \* SpecCache: the committed rows of table video_cache
    sessions,           \* SpecCache: the database session of each running sync
    rag_last,           \* SpecRag: the latest call on the vector store
    batch,              \* SpecBatch: the caller's loop over its collections
    upd,                \* SpecUpdate: one cache row and two fetch results applied to it
    shared,             \* SpecShared: concurrent syncs of collections that share video A
    txn,                \* SpecSession: the database session sync_folders shares among its syncs
    wait,               \* SpecWait: one wait for a transcription, step by step
    fetch_all,          \* SpecFetchAll: one fetch_all_videos_content call
    indexers            \* per collection: a concurrent sync's position at the shared video

vars == <<favorite_folders, favorite_videos, video_cache, vectorstore, clock,
          last, fetch_env, fetch_out, asr_env, asr_out, cache_rows, sessions,
          rag_last, batch, upd, shared, txn, wait, fetch_all, indexers>>

------------------------------------------------------------------------------
(* Bounds of the model *)

\* transcript lengths tried around the sufficiency threshold
Margin == 1
\* distinct non-empty video descriptions the platform may return
NumDescs == 1
\* length of a video title
TitleLen == 4
\* length of description d is DescBase + d
DescBase == 10

(* Program constants *)

\* content_fetcher.py:112  len(text) < 50
MinTranscriptLen == 50
\* content_fetcher.py:91   "视频标题："
TitlePrefixLen == 5
\* content_fetcher.py:93   "\n\n视频简介："
DescPrefixLen == 7
\* content_fetcher.py:60   "无法获取视频信息"
ErrorTextLen == 8

------------------------------------------------------------------------------
(* Texts.  A text is known by what produced it (kind, id), its length once  *)
(* stripped, and the amount of trailing whitespace it carries (pad).        *)

NoText == [kind |-> "none", id |-> 0, len |-> 0, pad |-> 0]

\* str.strip()
Strip(t) == [t EXCEPT !.pad = 0]

\* len(str)
Len0(t) == t.len + t.pad

\* bool(str): a non-empty string
Truthy(t) == Len0(t) > 0

\* the transcript the recognition service returns: joined sentences, stripped
\* (asr.py:168); length 0 stands for None / no sentence
AsrText(n) == IF n = 0 THEN NoText ELSE [kind |-> "asr", id |-> 0, len |-> n, pad |-> 0]

\* description d of a video as the platform returns it; an odd d ends in a newline
DescText(d) ==
    IF d = 0 THEN NoText
    ELSE [kind |-> "desc", id |-> d, len |-> DescBase + d, pad |-> d % 2]

\* f"视频标题：{title}" plus, when there is a description,
\* f"\n\n视频简介：{description}"
BasicText(d) ==
    IF Truthy(DescText(d))
    THEN [kind |-> "basic", id |-> d,
          len |-> TitlePrefixLen + TitleLen + DescPrefixLen + DescText(d).len,
          pad |-> DescText(d).pad]
    ELSE [kind |-> "basic", id |-> 0, len |-> TitlePrefixLen + TitleLen, pad |-> 0]

\* "无法获取视频信息"
ErrorText == [kind |-> "error", id |-> 0, len |-> ErrorTextLen, pad |-> 0]

------------------------------------------------------------------------------
(* ContentSource and VideoContent (models.py) *)

BASIC_INFO == "basic_info"
AI_SUMMARY == "ai_summary"
SUBTITLE == "subtitle"
ASR == "asr"

ContentSource == {AI_SUMMARY, SUBTITLE, BASIC_INFO, ASR}

VideoContent(title, content, source) ==
    [title |-> title, content |-> content, source |-> source]

------------------------------------------------------------------------------
(* ContentFetcher *)

TranscriptLens == {0} \cup ((MinTranscriptLen - Margin) .. (MinTranscriptLen + Margin))

\* Everything fetch_content's collaborators can do during one call.
FetchEnvs ==
    [cid_known   : BOOLEAN,               \* the caller passed a cid
     title_known : BOOLEAN,               \* the caller passed a title
     info        : {"ok", "raise"},       \* bili.get_video_info
     desc        : 0 .. NumDescs,         \* the description it returns (0: none)
     audio_url   : {"ok", "none", "raise"},   \* bili.get_audio_url
     download    : {"ok", "fail", "partial", "small", "raise"},
                                          \* bili.download_audio_to_file
     converter   : {"ok", "missing", "fails"},    \* ffmpeg
     recognition : {"ok", "raise"},       \* Recognition(...).call
     transcript  : TranscriptLens,        \* the sentences it returns (0: none)
     asr_raises  : BOOLEAN]               \* no API key: _configure raises

\* the local artifacts of a transcription attempt (data/asr_tmp)
AUDIO == "audio"
TRANSCODED == "transcoded"

\* download_audio_to_file: [raised, ok, files]. "fail" is a status other than
\* 200/206 (nothing is written); "partial" is an exception while the body is
\* streamed into the opened file, which is caught and answered with False;
\* "raise" is a failure before the request (outside the try)
download_audio_to_file(env) ==
    IF env.download = "raise" THEN [raised |-> TRUE, ok |-> FALSE, files |-> {}]
    ELSE IF env.download = "fail" THEN [raised |-> FALSE, ok |-> FALSE, files |-> {}]
    ELSE IF env.download = "partial"
    THEN [raised |-> FALSE, ok |-> FALSE, files |-> {AUDIO}]
    ELSE [raised |-> FALSE, ok |-> TRUE, files |-> {AUDIO}]

\* _prepare_recognition_input (_transcode_audio_to_pcm / _wav): the files on
\* disk afterwards, or no input path when ffmpeg is missing or exits non-zero
prepare_recognition_input(env, files) ==
    IF env.converter = "ok"
    THEN [ok |-> TRUE, files |-> files \cup {TRANSCODED}]
    ELSE [ok |-> FALSE, files |-> files]

\* _recognize_local_file from the try block on (asr.py:144-182), input being
\* what _prepare_recognition_input left: an exception of the recognition is
\* answered with None, and the finally removes both files
recognize_prepared(env, input) ==
    IF ~input.ok
    THEN [raised |-> FALSE, text |-> NoText, files |-> input.files]
    ELSE [raised |-> FALSE,
          text |-> IF env.recognition = "raise" THEN NoText
                   ELSE AsrText(env.transcript),
          files |-> input.files \ {AUDIO, TRANSCODED}]

\* _recognize_local_file: [raised, text, files], files being the local files
\* before and after.  _configure and _prepare_recognition_input run before
\* the try block; only the try block's finally removes the downloaded and the
\* transcoded file
recognize_local_file(env, files) ==
    IF env.asr_raises THEN [raised |-> TRUE, text |-> NoText, files |-> files]
    ELSE IF AUDIO \notin files THEN [raised |-> FALSE, text |-> NoText, files |-> files]
    ELSE recognize_prepared(env, prepare_recognition_input(env, files))

\* the result of a step of the transcription attempt, with the calls made
with_calls(r, calls) ==
    [raised |-> r.raised, text |-> r.text, calls |-> calls, files |-> r.files]

\* _try_asr_with_local_audio after the download (content_fetcher.py:170-186)
after_download(env, d) ==
    IF d.raised \/ ~d.ok
    THEN [raised |-> d.raised, text |-> NoText, calls |-> <<"download">>,
          files |-> d.files]
    ELSE IF env.download = "small"
    THEN [raised |-> FALSE, text |-> NoText, calls |-> <<"download">>,
          files |-> d.files \ {AUDIO}]
    ELSE with_calls(recognize_local_file(env, d.files), <<"download", "recognize">>)

\* _try_asr_with_local_audio: [raised, text, calls, files]; an exception of
\* the download or of the recognition call is not caught here
try_asr_with_local_audio(env) == after_download(env, download_audio_to_file(env))

\* a check that also rejects a text of exactly the minimum length
TooShortInclusive(text) == ~Truthy(text) \/ Len0(text) <= MinTranscriptLen

\* the sufficiency check of _try_asr: not text or len(text) < 50
TooShort(text) == ~Truthy(text) \/ Len0(text) < MinTranscriptLen

\* the sufficiency check of _try_asr (content_fetcher.py:112-117) on what
\* _try_asr_with_local_audio did
checked(r) ==
    [raised |-> r.raised,
     text |-> IF r.raised \/ TooShort(r.text) THEN NoText ELSE r.text,
     calls |-> <<"audio_url">> \o r.calls,
     files |-> r.files]

\* the body of _try_asr's try block
try_asr_body(env) ==
    IF env.audio_url \in {"raise", "none"}
    THEN [raised |-> env.audio_url = "raise", text |-> NoText,
          calls |-> <<"audio_url">>, files |-> {}]
    ELSE checked(try_asr_with_local_audio(env))

\* _try_asr with no handler around its body
try_asr_unguarded(env) == try_asr_body(env)

\* except Exception -> return None
caught(b) ==
    [raised |-> FALSE, text |-> b.text, calls |-> b.calls, files |-> b.files]

\* _try_asr
try_asr(env) == caught(try_asr_body(env))

NoContent == VideoContent("", NoText, "")

\* the second get_video_info of fetch_content (content_fetcher.py:80-87),
\* made when the first was skipped: the description, or none when it raises
refetch_description(env) ==
    IF env.info = "ok" THEN DescText(env.desc) ELSE NoText

\* fetch_content after _try_asr (content_fetcher.py:69-100): the transcript
\* if there is one, else the title and the description
after_asr(env, first, title, asr) ==
    IF asr.raised
    THEN [raised |-> TRUE, content |-> NoContent,
          calls |-> (IF first THEN <<"video_info">> ELSE <<>>) \o asr.calls,
          files |-> asr.files]
    ELSE IF Truthy(asr.text)
    THEN [raised |-> FALSE,
          content |-> VideoContent(title, asr.text, ASR),
          calls |-> (IF first THEN <<"video_info">> ELSE <<>>) \o asr.calls,
          files |-> asr.files]
    ELSE
      LET description2 == IF first THEN DescText(env.desc)
                          ELSE refetch_description(env)
          d == IF Truthy(description2) THEN description2.id ELSE 0
      IN [raised |-> FALSE,
          content |-> VideoContent(title, BasicText(d), BASIC_INFO),
          calls |-> IF first THEN <<"video_info">> \o asr.calls
                    ELSE asr.calls \o <<"video_info">>,
          files |-> asr.files]

\* a fetch that goes to the transcription without resolving the metadata
after_info_skipped(env, first, title) == after_asr(env, FALSE, title, try_asr(env))

\* the first get_video_info of fetch_content (content_fetcher.py:48-62), then
\* the rest
after_info(env, first, title) ==
    IF first /\ env.info = "raise"
    THEN [raised |-> FALSE,
          content |-> VideoContent(title, ErrorText, BASIC_INFO),
          calls |-> <<"video_info">>, files |-> {}]
    ELSE after_asr(env, first, title, try_asr(env))

\* fetch_content: [raised, content, calls, files]; files are the local
\* artifacts left in data/asr_tmp when the call returns
fetch_content(env) ==
    after_info(env, ~env.cid_known \/ ~env.title_known,
               IF env.title_known
                  \/ ((~env.cid_known \/ ~env.title_known) /\ env.info = "ok")
               THEN "title" ELSE "unknown_title")

\* fetch_out before the call, and after it
NoCall ==
    [called |-> FALSE, raised |-> FALSE, content |-> NoContent, calls |-> <<>>,
     files |-> {}]

call_result(r) ==
    [called |-> TRUE, raised |-> r.raised, content |-> r.content, calls |-> r.calls,
     files |-> r.files]

------------------------------------------------------------------------------
(* ASRService: the two transport strategies *)

\* status queries answered before the task's timeout expires
MaxPolls == 2

\* what one status query (Transcription.fetch / GET tasks/<id>) does
PollOutcomes == {"RUNNING", "SUCCEEDED", "FAILED", "raise"}

RECURSIVE SeqsUpTo(_, _)
SeqsUpTo(S, n) ==
    IF n = 0 THEN {<<>>}
    ELSE LET shorter == SeqsUpTo(S, n - 1)
         IN shorter \cup {Append(q, x) : q \in {r \in shorter : Len(r) = n - 1}, x \in S}

\* Everything the recognition service and the local tools can do during one
\* transcription call. strategy "url" is transcribe_url, "local" is
\* transcribe_local_file; a field the strategy does not use has one fixed value.
AsrEnvs ==
    {e \in [strategy    : {"url", "local"},
            asr_raises  : BOOLEAN,                     \* no API key: _configure raises
            oss         : BOOLEAN,                     \* the URL starts with oss://
            submit      : {"ok", "raise", "no_task"},  \* the submission of the task
            status0     : {"PENDING", "SUCCEEDED", "FAILED"},  \* status it answers
            polls       : SeqsUpTo(PollOutcomes, MaxPolls),
            status_ok   : BOOLEAN,                     \* last response has status 200
            has_url     : BOOLEAN,                     \* a subtask succeeded with a URL
            exists      : BOOLEAN,                     \* the local file exists
            converter   : {"ok", "missing", "fails"},  \* ffmpeg
            recognition : {"ok", "raise"},             \* Recognition(...).call
            transcript  : {0, MinTranscriptLen}] :     \* the text returned (0: none)
        /\ e.strategy = "url" =>
              e.exists /\ e.converter = "ok" /\ e.recognition = "ok"
        /\ e.strategy = "local" =>
              /\ e.oss /\ e.submit = "ok" /\ e.status0 = "PENDING"
              /\ e.polls = <<>> /\ e.status_ok /\ e.has_url
        /\ (e.has_url /\ e.strategy = "url") =>
              \/ e.status0 = "SUCCEEDED"
              \/ \E i \in 1 .. Len(e.polls) : e.polls[i] = "SUCCEEDED"}

\* the polling loop of _transcribe_sync: the task's final status, "timeout"
\* when the queries run out, "raise" when Transcription.fetch raises (the loop
\* has no handler)
RECURSIVE poll_sdk(_, _)
poll_sdk(status, polls) ==
    IF status \in {"SUCCEEDED", "FAILED"} THEN status
    ELSE IF polls = <<>> THEN "timeout"
    ELSE IF Head(polls) = "raise" THEN "raise"
    ELSE poll_sdk(Head(polls), Tail(polls))

\* the polling loop of _transcribe_sync_restful: a query that fails
\* (_fetch_transcription_task_restful returns None) is repeated
RECURSIVE poll_restful(_)
poll_restful(polls) ==
    IF polls = <<>> THEN "timeout"
    ELSE IF Head(polls) \in {"SUCCEEDED", "FAILED"} THEN Head(polls)
    ELSE poll_restful(Tail(polls))

NoTranscript == [raised |-> FALSE, text |-> NoText]

\* the scan of the results: the text of _download_transcription for the first
\* subtask that succeeded with a URL, else None
transcription_result(env) ==
    IF env.has_url THEN [raised |-> FALSE, text |-> AsrText(env.transcript)]
    ELSE NoTranscript

\* _transcribe_sync_restful after _configure
transcribe_sync_restful(env) ==
    IF env.submit # "ok" THEN NoTranscript
    ELSE IF poll_restful(env.polls) = "timeout" THEN NoTranscript
    ELSE transcription_result(env)

\* _transcribe_sync: [raised, text]
transcribe_sync(env) ==
    IF env.asr_raises THEN [raised |-> TRUE, text |-> NoText]
    ELSE IF env.oss THEN transcribe_sync_restful(env)
    ELSE IF env.submit # "ok" THEN NoTranscript
    ELSE LET status == poll_sdk(env.status0, env.polls)
         IN IF status = "raise" THEN [raised |-> TRUE, text |-> NoText]
            ELSE IF status = "timeout" THEN NoTranscript
            ELSE IF ~env.status_ok THEN NoTranscript
            ELSE transcription_result(env)

\* transcribe_local_file: _recognize_local_file on the caller's file
transcribe_local_file(env) ==
    LET r == recognize_local_file(env, IF env.exists THEN {AUDIO} ELSE {})
    IN [raised |-> r.raised, text |-> r.text]

NoAsrEnv == CHOOSE e \in AsrEnvs : TRUE

\* asr_out before the call
NoAsrCall == [called |-> FALSE, raised |-> FALSE, text |-> NoText]

------------------------------------------------------------------------------
(* The database and the platform, as _sync_folder sees them *)

Videos == {"A", "B"}

\* media ids of the user's collections
Folders == {1, 2}

\* the videos the user may put in each collection
Shelf(folder_id) == IF folder_id = 1 THEN {"A", "B"} ELSE {"A"}

\* The videos whose environment is kept plain: such a video is never listed as
\* invalid, has no description, and the calls made for it do not fail.
Plain == {"B"}

\* a media entry of a listing: not listed, listed, listed with attr = 9, or
\* listed with attr = 0 under a deleted-content placeholder title
Entries == {"absent", "valid", "invalid", "placeholder"}

\* media.get("attr", 0)
attr(entry) == IF entry = "invalid" THEN 9 ELSE 0

\* title in ["已失效视频", "已删除视频"]
placeholder_title(entry) == entry = "placeholder"

\* what get_all_favorite_videos may return for a collection
Listings(folder_id) ==
    {l \in [Videos -> Entries] :
        /\ \A v \in Videos \ Shelf(folder_id) : l[v] = "absent"
        /\ \A v \in Plain : l[v] \in {"absent", "valid"}}

\* largest media_count the collection summary reports
MaxMediaCount == 1

\* bili.get_favorite_content(folder_id, pn=1, ps=1): raises, or info.media_count
Summaries ==
    {[ok |-> FALSE, media_count |-> 0]} \cup
    {[ok |-> TRUE, media_count |-> n] : n \in 0 .. MaxMediaCount}

\* The summary decides something only when the listing is empty; with a
\* listing of n entries it is taken to report n or to fail.
SummariesFor(listing) ==
    LET n == Cardinality({v \in Videos : listing[v] # "absent"})
    IN IF n = 0 THEN Summaries ELSE {[ok |-> TRUE, media_count |-> n]}

\* VideoCache row (content, content_source, is_processed); content_source ""
\* stands for NULL
NoRow == [present |-> FALSE, content |-> NoText, content_source |-> "",
          is_processed |-> FALSE]

\* FavoriteFolder row
NoFolder == [id |-> 0, media_count |-> 0, last_sync_at |-> 0]

------------------------------------------------------------------------------
(* RAGService: the vector store is a bag of documents *)

\* rag.py:72  chunk_size
ChunkSize == 1000
\* rag.py:73  chunk_overlap
ChunkOverlap == 200
\* rag.py:154  len(full_content.strip()) < 10
MinFullLen == 10

\* a title longer than the titles of the sync model
LongTitleLen == 8

\* "未知标题"
UnknownTitleLen == 4

\* len(title) after title = video.title or "未知标题"
TitleLength(title) ==
    IF title \in {"", "unknown_title"} THEN UnknownTitleLen
    ELSE IF title = "long_title" THEN LongTitleLen
    ELSE TitleLen

\* len(full_content): "# title", then "\n\n" and the stripped content if any
FullLen(content) ==
    2 + TitleLength(content.title)
      + (IF Truthy(Strip(content.content))
         THEN 2 + Strip(content.content).len ELSE 0)

\* number of documents add_video_content makes of a content
NumChunks(content) ==
    LET n == FullLen(content) IN
    IF n < MinFullLen THEN 0
    ELSE IF n <= ChunkSize THEN 1
    ELSE 1 + ((n - ChunkSize) + (ChunkSize - ChunkOverlap) - 1)
               \div (ChunkSize - ChunkOverlap)

\* the documents of a video content, with their provenance metadata
Documents(bvid, content) ==
    {[bvid |-> bvid, source |-> content.source, text |-> Strip(content.content),
      chunk_index |-> i] : i \in 0 .. (NumChunks(content) - 1)}

\* RAGService.add_video_content, when vectorstore.add_documents succeeds
add_video_content(store, bvid, content) ==
    store (+) SetToBag(Documents(bvid, content))

\* a delete whose filter matches the first chunk of the video only
delete_first_chunk(store, bvid) ==
    [d \in {x \in DOMAIN store : x.bvid # bvid \/ x.chunk_index # 0} |-> store[d]]

\* RAGService.delete_video, when the delete succeeds: where={"bvid": bvid}
delete_video(store, bvid) ==
    [d \in {x \in DOMAIN store : x.bvid # bvid} |-> store[d]]

\* the documents of the store that carry this video id
ChunksOf(store, bvid) ==
    [d \in {x \in DOMAIN store : x.bvid = bvid} |-> store[d]]

ChunkCount(store, bvid) == BagCardinality(ChunksOf(store, bvid))

\* the contents handed to the vector store: no text, blanks only, a transcript,
\* a text of chunk size; with no title, a short one, a long one
Blank == [kind |-> "asr", id |-> 0, len |-> 0, pad |-> 2]

RagTexts == {NoText, Blank, AsrText(MinTranscriptLen), AsrText(ChunkSize)}

RagContents ==
    {VideoContent(title, text, ASR) : title \in {"", "title", "long_title"}, text \in RagTexts}

\* rag_last before any call
NoRagCall == [op |-> "none", bvid |-> "", content |-> NoContent, count |-> 0, raised |-> FALSE, before |-> "none", returned |-> 0]

------------------------------------------------------------------------------
(* _sync_folder *)

\* source_priority.get(source, 0)
source_priority(source) ==
    CASE source = BASIC_INFO -> 1
      [] source = AI_SUMMARY -> 2
      [] source = SUBTITLE -> 3
      [] source = ASR -> 4
      [] OTHER -> 0

is_better_source(new_source, old_source) ==
    source_priority(new_source) > source_priority(old_source)

\* a refresh rule that spares no cache row
always_refresh(cache) == TRUE

\* a refresh rule that also takes a text of exactly the minimum length
refresh_up_to_min(cache) ==
    IF ~cache.present THEN TRUE
    ELSE IF Strip(cache.content).len <= MinTranscriptLen THEN TRUE
    ELSE IF cache.content_source \in {"", BASIC_INFO} THEN TRUE
    ELSE FALSE

should_refresh_cache(cache) ==
    IF ~cache.present THEN TRUE
    ELSE IF Strip(cache.content).len < MinTranscriptLen THEN TRUE
    ELSE IF cache.content_source \in {"", BASIC_INFO} THEN TRUE
    ELSE FALSE

\* a rule that finds no cached transcript usable
never_usable(cache) == FALSE

is_asr_cache_usable(cache) ==
    IF ~cache.present THEN FALSE
    ELSE IF cache.content_source # ASR THEN FALSE
    ELSE Strip(cache.content).len >= MinTranscriptLen

\* _upsert_video_cache: a new row has no content; an existing row keeps it
upsert_video_cache(cache) ==
    IF cache.present THEN cache ELSE [NoRow EXCEPT !.present = TRUE]

\* the cache row after "cache.content = content.content; ..."
write_cache(cache, content) ==
    [cache EXCEPT !.content = content.content,
                  !.content_source = content.source,
                  !.is_processed = TRUE]

\* What the collaborators do for one video during one sync: the result of
\* fetch_content if it is called, and whether the vector store's delete and add
\* succeed if they are called.
SyncFetchEnvs ==
    {e \in FetchEnvs : e.cid_known /\ e.title_known
                       /\ e.transcript <= MinTranscriptLen}

FetchRaises == [raised |-> TRUE, content |-> NoContent]

FetchResults ==
    {[raised |-> fetch_content(e).raised, content |-> fetch_content(e).content] :
        e \in SyncFetchEnvs} \cup {FetchRaises}

\* no fetch_content call was made for the video
NoFetch == [raised |-> FALSE, content |-> NoContent]

Outcomes ==
    [fetch : FetchResults \cup {NoFetch}, delete_ok : BOOLEAN, add_ok : BOOLEAN]

\* the outcomes considered for video v
OutcomesOf(v) ==
    IF v \in Plain
    THEN {o \in Outcomes : /\ ~o.fetch.raised /\ o.delete_ok /\ o.add_ok
                           /\ o.fetch.content.content.kind = "basic"
                                 => o.fetch.content.content.id = 0}
    ELSE Outcomes

NoOutcome == [fetch |-> NoFetch, delete_ok |-> TRUE, add_ok |-> TRUE]

\* the re-index of knowledge.py:364-369: delete_video with its exception
\* caught, then add_video_content, whose exception ends the video's try block
reindex(store, bvid, content, o) ==
    LET store1 == IF o.delete_ok THEN delete_video(store, bvid) ELSE store
    IN IF o.add_ok THEN add_video_content(store1, bvid, content) ELSE store1

\* a comparison that takes every fetched text for a change
any_text_changed(new_text, old_content) == Truthy(new_text)

\* knowledge.py:330  new_text and new_text != old_content
text_changed(new_text, old_content) == Truthy(new_text) /\ new_text # old_content

\* The body of the try block of the per-video loop (knowledge.py:302-371) for
\* one target: the cache row and the store it leaves, what it did, and whether
\* an exception left it.
process_target(bvid, cache, store, global_count, o) ==
    LET old_content == Strip(cache.content)
        old_source == cache.content_source
        needs_fetch == should_refresh_cache(cache)
    IN
    IF needs_fetch /\ o.fetch.raised
    THEN [cache |-> cache, store |-> store, fetched |-> TRUE,
          replaced |-> FALSE, reindexed |-> FALSE, raised |-> TRUE]
    ELSE
      LET content == IF needs_fetch THEN o.fetch.content ELSE NoContent
          new_text == Strip(content.content)
          new_source == content.source
          should_update_cache ==
              /\ needs_fetch
              /\ \/ ~Truthy(old_content)
                 \/ new_source # "" /\ is_better_source(new_source, old_source)
                 \/ text_changed(new_text, old_content)
          should_reindex == should_update_cache
          cache1 == IF cache.present /\ should_update_cache
                    THEN write_cache(cache, content) ELSE cache
      IN
      IF ~(global_count = 0 \/ should_reindex)
      THEN [cache |-> cache1, store |-> store, fetched |-> needs_fetch,
            replaced |-> cache.present /\ should_update_cache,
            reindexed |-> FALSE, raised |-> FALSE]
      ELSE IF content = NoContent /\ ~is_asr_cache_usable(cache1) /\ o.fetch.raised
      THEN [cache |-> cache1, store |-> store, fetched |-> TRUE,
            replaced |-> cache.present /\ should_update_cache,
            reindexed |-> FALSE, raised |-> TRUE]
      ELSE
        LET from_cache == content = NoContent /\ is_asr_cache_usable(cache1)
            second == content = NoContent /\ ~is_asr_cache_usable(cache1)
            content2 ==
                IF from_cache
                THEN VideoContent("title", Strip(cache1.content), ASR)
                ELSE IF second THEN o.fetch.content ELSE content
            cache2 ==
                IF from_cache THEN [cache1 EXCEPT !.is_processed = TRUE]
                ELSE IF second /\ cache1.present THEN write_cache(cache1, content2)
                ELSE cache1
        IN [cache |-> cache2, store |-> reindex(store, bvid, content2, o),
            fetched |-> needs_fetch \/ second,
            replaced |-> cache.present /\ (should_update_cache \/ second),
            reindexed |-> TRUE, raised |-> ~o.add_ok]

\* the same body with no handler around it: what the loop would see if the
\* exception were not caught
uncaught_video(bvid, cache, store, global_count, o) ==
    LET r == process_target(bvid, cache, store, global_count, o)
    IN [cache |-> r.cache, store |-> r.store, fetched |-> r.fetched,
        replaced |-> r.replaced, reindexed |-> r.reindexed,
        raised |-> r.raised, warned |-> FALSE]

\* the whole try statement (knowledge.py:302-373): "except Exception" logs a
\* warning and the loop goes on with the membership row
try_video(bvid, cache, store, global_count, o) ==
    LET r == process_target(bvid, cache, store, global_count, o)
    IN [cache |-> r.cache, store |-> r.store, fetched |-> r.fetched,
        replaced |-> r.replaced, reindexed |-> r.reindexed,
        raised |-> FALSE, warned |-> r.raised]

\* select(func.count()).select_from(FavoriteVideo).where(bvid == bvid)
global_count(rows, bvid) == Cardinality({r \in rows : r.bvid = bvid})

\* a count that reports no other reference, whatever the rows are
no_other_count(rows, bvid, id) == 0

\* ... .where(bvid == bvid, folder_id != folder.id)
other_count(rows, bvid, id) ==
    Cardinality({r \in rows : r.bvid = bvid /\ r.folder_id # id})

\* select(FavoriteVideo.bvid).where(FavoriteVideo.folder_id == id)
bvids_of(rows, id) == {r.bvid : r \in {x \in rows : x.folder_id = id}}

\* _get_or_create_folder: the row of this media id, created with the next
\* autoincrement id when missing; media_count is set in both cases
get_or_create_folder(folders, media_id, media_count) ==
    IF folders[media_id].id = 0
    THEN [id |-> 1 + Cardinality({g \in Folders : folders[g].id # 0}),
          media_count |-> media_count, last_sync_at |-> 0]
    ELSE [folders[media_id] EXCEPT !.media_count = media_count]

\* a filter that keeps the invalid entries
all_listed_keys(listing, exclude) ==
    {v \in Videos : listing[v] # "absent" /\ v \notin exclude}

\* a filter that looks at the attr marker alone
keys_unless_flagged(listing, exclude) ==
    {v \in Videos : /\ listing[v] # "absent" /\ v \notin exclude
                    /\ attr(listing[v]) # 9}

\* the keys of video_map: listed, with a bvid, not excluded, not invalid
video_map_keys(listing, exclude) ==
    {v \in Videos : /\ listing[v] # "absent" /\ v \notin exclude
                    /\ ~(attr(listing[v]) = 9 \/ placeholder_title(listing[v]))}

NoLog == [warned |-> {}, fetched |-> {}, replaced |-> {}, reindexed |-> {}, total_targets |-> 0, processed_targets |-> 0]

\* The per-video loop (knowledge.py:298-389) over the targets S.  r is what the
\* try statement of the first target v did: v's membership row is added after
\* it, and an exception that leaves the try statement leaves the loop.
\* (log: the videos whose try statement logged a warning, the videos for
\* which fetch_content was called, those whose cache row was written, those
\* for which the re-index was entered, and the counters total_targets and
\* processed_targets handed to progress_callback)
RECURSIVE index_targets(_, _, _, _, _, _, _)
RECURSIVE after_video(_, _, _, _, _, _, _, _)
\* a loop that writes no membership row for a video whose try statement
\* logged a warning
after_video_unless_warned(S, v, r, caches, rows, id, out, log) ==
    LET caches1 == [caches EXCEPT ![v] = r.cache]
        log1 == [log EXCEPT !.warned = IF r.warned THEN @ \cup {v} ELSE @,
                            !.fetched = IF r.fetched THEN @ \cup {v} ELSE @,
                            !.processed_targets = @ + 1]
    IN index_targets(S \ {v}, caches1, r.store,
                     IF r.warned THEN rows
                     ELSE rows \cup {[folder_id |-> id, bvid |-> v]}, id, out, log1)

after_video(S, v, r, caches, rows, id, out, log) ==
    LET caches1 == [caches EXCEPT ![v] = r.cache]
        log1 == [warned |-> IF r.warned THEN log.warned \cup {v} ELSE log.warned,
                 fetched |-> IF r.fetched THEN log.fetched \cup {v} ELSE log.fetched,
                 replaced |-> IF r.replaced THEN log.replaced \cup {v} ELSE log.replaced,
                 reindexed |-> IF r.reindexed THEN log.reindexed \cup {v}
                               ELSE log.reindexed,
                 total_targets |-> log.total_targets,
                 processed_targets |-> IF r.raised THEN log.processed_targets
                                       ELSE log.processed_targets + 1]
    IN IF r.raised
       THEN [caches |-> caches1, store |-> r.store, rows |-> rows,
             raised |-> TRUE, log |-> log1]
       ELSE index_targets(S \ {v}, caches1, r.store,
                          rows \cup {[folder_id |-> id, bvid |-> v]}, id, out, log1)

first_target(S) == CHOOSE x \in S : TRUE

index_targets(S, caches, store, rows, id, out, log) ==
    IF S = {}
    THEN [caches |-> caches, store |-> store, rows |-> rows, raised |-> FALSE,
          log |-> log]
    ELSE after_video(S, first_target(S),
                     try_video(first_target(S), caches[first_target(S)], store,
                               global_count(rows, first_target(S)),
                               out[first_target(S)]),
                     caches, rows, id, out, log)


\* the loop over removed (knowledge.py:393-406): the chunks of a removed video
\* are deleted when no other collection has a row for it; a failing delete is
\* logged
RECURSIVE delete_removed(_, _, _, _, _)
delete_removed(S, store, rows, id, out) ==
    IF S = {} THEN store
    ELSE LET v == CHOOSE x \in S : TRUE
             store1 == IF other_count(rows, v, id) = 0 /\ out[v].delete_ok
                       THEN delete_video(store, v) ELSE store
         IN delete_removed(S \ {v}, store1, rows, id, out)

MSG_DONE == "sync done"
MSG_SKIPPED == "sync anomaly: empty list, skipped"

NoResult == [total |-> 0, added |-> 0, removed |-> 0, indexed |-> 0,
             message |-> "", last_sync_at |-> 0]

\* an end of _sync_folder that also deletes the cache row of a removed video
\* that no other collection holds
finish_sync_purging(folders, rows, caches, now, folder_id, folder, valid_count, added, removed, indexed, out) ==
    IF indexed.raised
    THEN [raised |-> TRUE,
          folders |-> folders, rows |-> rows, caches |-> caches,
          store |-> indexed.store, log |-> indexed.log,
          result |-> NoResult]
    ELSE
      LET rows2 == {r \in indexed.rows :
                        ~(r.folder_id = folder.id /\ r.bvid \in removed)}
      IN [raised |-> FALSE,
          folders |-> [folders EXCEPT
                          ![folder_id] = [folder EXCEPT !.last_sync_at = now]],
          rows |-> rows2,
          caches |-> [v \in Videos |->
                        IF v \in removed /\ other_count(indexed.rows, v, folder.id) = 0
                        THEN NoRow ELSE indexed.caches[v]],
          store |-> delete_removed(removed, indexed.store, indexed.rows,
                                   folder.id, out),
          log |-> indexed.log,
          result |-> [total |-> valid_count,
                      added |-> Cardinality(added),
                      removed |-> Cardinality(removed),
                      indexed |-> Cardinality(bvids_of(rows2, folder.id)),
                      message |-> MSG_DONE, last_sync_at |-> now]]

\* The end of _sync_folder (knowledge.py:391-433), after the per-video loop
\* has left `indexed`: the chunks and the rows of the removed videos are
\* deleted, last_sync_at is set, the session is committed and the result is
\* built.  When an exception left the loop the session is never committed: the
\* database keeps its rows, the vector store keeps what was done to it.
finish_sync(folders, rows, caches, now, folder_id, folder, valid_count, added, removed, indexed, out) ==
    IF indexed.raised
    THEN [raised |-> TRUE,
          folders |-> folders, rows |-> rows, caches |-> caches,
          store |-> indexed.store, log |-> indexed.log,
          result |-> NoResult]
    ELSE
      LET rows2 == {r \in indexed.rows :
                        ~(r.folder_id = folder.id /\ r.bvid \in removed)}
      IN [raised |-> FALSE,
          folders |-> [folders EXCEPT
                          ![folder_id] = [folder EXCEPT !.last_sync_at = now]],
          rows |-> rows2, caches |-> indexed.caches,
          store |-> delete_removed(removed, indexed.store, indexed.rows,
                                   folder.id, out),
          log |-> indexed.log,
          result |-> [total |-> valid_count,
                      added |-> Cardinality(added),
                      removed |-> Cardinality(removed),
                      indexed |-> Cardinality(bvids_of(rows2, folder.id)),
                      message |-> MSG_DONE, last_sync_at |-> now]]

\* The membership diff and the per-video loop (knowledge.py:242-389), once
\* the collection's row is there.
sync_members(folders, rows, caches, store, now, folder_id, folder, current_bvids, existing_bvids, out) ==
    LET added == current_bvids \ existing_bvids
        removed == existing_bvids \ current_bvids
        caches1 == [v \in Videos |->
                      IF v \in current_bvids THEN upsert_video_cache(caches[v])
                      ELSE caches[v]]
        update_candidates ==
            {v \in (current_bvids \cap existing_bvids) :
                v \notin added /\ should_refresh_cache(caches1[v])}
        targets == added \cup update_candidates
    IN finish_sync(folders, rows, caches, now, folder_id, folder,
                   Cardinality(current_bvids), added, removed,
                   index_targets(targets, caches1, store, rows, folder.id, out,
                                 [NoLog EXCEPT !.total_targets = Cardinality(targets)]),
                   out)

\* the collection's row (knowledge.py:231-245), then the rest
sync_listed(folders, rows, caches, store, now, folder_id, folder, current_bvids, out) ==
    sync_members(folders, rows, caches, store, now, folder_id, folder,
                 current_bvids, bvids_of(rows, folder.id), out)

\* a _sync_folder without the empty-listing guard
sync_folder_unguarded(folders, rows, caches, store, now, folder_id, exclude, listing, summary, out) ==
    sync_listed(folders, rows, caches, store, now, folder_id,
                get_or_create_folder(folders, folder_id,
                    Cardinality(video_map_keys(listing, exclude))),
                video_map_keys(listing, exclude), out)

\* _sync_folder, once get_all_favorite_videos has returned the listing: the
\* database and the vector store it leaves and the dict it returns.
sync_folder(folders, rows, caches, store, now, folder_id, exclude, listing, summary, out) ==
    LET videos == {v \in Videos : listing[v] # "absent"}
        total_in_folder == IF summary.ok THEN summary.media_count
                           ELSE Cardinality(videos)
    IN
    IF videos = {} /\ total_in_folder > 0
    THEN [raised |-> FALSE,
          folders |-> folders, rows |-> rows, caches |-> caches, store |-> store,
          log |-> NoLog,
          result |-> [total |-> total_in_folder, added |-> 0, removed |-> 0,
                      indexed |-> Cardinality({r \in rows : r.folder_id = folder_id}),
                      message |-> MSG_SKIPPED, last_sync_at |-> now]]
    ELSE sync_listed(folders, rows, caches, store, now, folder_id,
                     get_or_create_folder(folders, folder_id,
                         Cardinality(video_map_keys(listing, exclude))),
                     video_map_keys(listing, exclude), out)

------------------------------------------------------------------------------
(* Table video_cache under concurrent sessions *)

\* the session of a sync that is not running
NoSession == [status |-> "idle", todo |-> {}, added |-> {}, updated |-> {}, done |-> {}, rounds |-> 0]

\* select(VideoCache).where(VideoCache.bvid == bvid) inside a session: the
\* committed rows and the session's own pending inserts
cache_selected(rows, session, bvid) ==
    (\E r \in rows : r.bvid = bvid) \/ bvid \in session.added

\* an INSERT that the table accepts whatever rows it holds
no_unique_violation(rows, bvids) == FALSE

\* bvid = Column(String(20), unique=True, ...): an INSERT of these bvids is
\* rejected when one of them is already in the table
unique_violation(rows, bvids) == \E r \in rows : r.bvid \in bvids

\* the INSERTs of a flush: one row per pending bvid, ids from autoincrement
RECURSIVE insert_rows(_, _, _)
insert_rows(rows, bvids, folder_id) ==
    IF bvids = {} THEN rows
    ELSE LET v == CHOOSE x \in bvids : TRUE
             row == [id |-> Cardinality(rows) + 1, bvid |-> v, writers |-> {folder_id}]
         IN insert_rows(rows \cup {row}, bvids \ {v}, folder_id)

\* the UPDATEs of a flush: the rows of these bvids, written by this sync
update_rows(rows, bvids, folder_id) ==
    {IF r.bvid \in bvids THEN [r EXCEPT !.writers = @ \cup {folder_id}] ELSE r : r \in rows}

------------------------------------------------------------------------------
(* The sync engine: _sync_folder calls, one after another *)

\* number of _sync_folder calls in a behaviour
MaxSyncs == 3
\* a failing delete is considered while a video has fewer chunks than this
MaxCopies == 2
\* collaborator calls that fail during one _sync_folder call (the try block
\* left before the store is touched, the store's delete, the store's add)
MaxFailures == 1

\* exclude_bvids of the caller: none (sync_folders)
Excludes == {{}}

NoSync == [kind |-> "none", folder_id |-> 0, exclude |-> {},
           listing |-> [v \in Videos |-> "absent"],
           summary |-> [ok |-> FALSE, media_count |-> 0],
           existing |-> {}, media_count |-> 0, result |-> NoResult,
           fetched |-> [v \in Videos |-> NoFetch],
           warned |-> {}, undeleted |-> {}, replaced |-> {}, reindexed |-> {},
           again |-> FALSE, same_fetch |-> FALSE]

\* the record of one call: its inputs, the membership and the member count
\* stored for the collection before it, what it returned, the result of each
\* fetch_content call it made, the videos whose try statement logged a
\* warning, the videos for which a delete failed, the videos whose cache row
\* it wrote and those it re-indexed, whether it repeats the call
\* before it (same collection, same listing, same summary), and whether the
\* fetches made in both calls returned the same
call_record(s, folder_id, exclude, listing, summary, out) ==
    LET fetched == [v \in Videos |->
                      IF v \in s.log.fetched THEN out[v].fetch ELSE NoFetch]
    IN [kind |-> IF s.raised THEN "raised" ELSE "returned",
        folder_id |-> folder_id, exclude |-> exclude, listing |-> listing,
        summary |-> summary,
        existing |-> bvids_of(favorite_videos, favorite_folders[folder_id].id),
        media_count |-> favorite_folders[folder_id].media_count,
        result |-> s.result,
        fetched |-> fetched,
        warned |-> s.log.warned,
        replaced |-> s.log.replaced,
        reindexed |-> s.log.reindexed,
        undeleted |-> {v \in Videos : ~out[v].delete_ok},
        again |-> /\ last.kind = "returned"
                  /\ last.folder_id = folder_id
                  /\ last.exclude = exclude
                  /\ last.listing = listing
                  /\ last.summary = summary,
        same_fetch |-> \A v \in Videos :
                          fetched[v] # NoFetch /\ last.fetched[v] # NoFetch
                              => fetched[v] = last.fetched[v]]

\* The outcomes that differ for video v in this call: the outcome of a call
\* that is not made is left at its default.
RelevantOutcomes(v, folder_id, exclude, listing, summary) ==
    LET videos == {x \in Videos : listing[x] # "absent"}
        total_in_folder == IF summary.ok THEN summary.media_count
                           ELSE Cardinality(videos)
        current_bvids == video_map_keys(listing, exclude)
        folder == get_or_create_folder(favorite_folders, folder_id, 0)
        existing_bvids == bvids_of(favorite_videos, folder.id)
        cache == IF v \in current_bvids THEN upsert_video_cache(video_cache[v])
                 ELSE video_cache[v]
        target == v \in current_bvids
                  /\ (v \notin existing_bvids \/ should_refresh_cache(cache))
        removed == v \in existing_bvids \ current_bvids
        chunks == ChunkCount(vectorstore, v)
    IN
    IF videos = {} /\ total_in_folder > 0 THEN {NoOutcome}
    ELSE IF target
    THEN {o \in OutcomesOf(v) :
            LET r == process_target(v, cache, vectorstore,
                                    global_count(favorite_videos, v), o)
            IN /\ r.fetched <=> o.fetch # NoFetch
               /\ ~r.reindexed => o.delete_ok /\ o.add_ok
               /\ ~o.delete_ok => chunks > 0 /\ chunks < MaxCopies}
    ELSE IF removed /\ other_count(favorite_videos, v, folder.id) = 0
    THEN {o \in OutcomesOf(v) \cup {NoOutcome} :
            /\ o.fetch = NoFetch /\ o.add_ok
            /\ ~o.delete_ok => chunks > 0}
    ELSE {NoOutcome}

\* the failing calls of an outcome
Failures(o) ==
    (IF o.fetch.raised THEN 1 ELSE 0)
    + (IF o.delete_ok THEN 0 ELSE 1) + (IF o.add_ok THEN 0 ELSE 1)

\* the maps from the videos of S to their outcomes, with at most n failures
RECURSIVE OutcomeMaps(_, _, _)
OutcomeMaps(S, rel, n) ==
    IF S = {} THEN {<<>>}
    ELSE LET v == CHOOSE x \in S : TRUE
         IN UNION {{(v :> o) @@ g : g \in OutcomeMaps(S \ {v}, rel, n - Failures(o))} :
                     o \in {x \in rel[v] : Failures(x) <= n}}

\* the outcome maps of one call from the current state
CallOutcomes(folder_id, exclude, listing, summary) ==
    OutcomeMaps(Videos,
                [v \in Videos |->
                    RelevantOutcomes(v, folder_id, exclude, listing, summary)],
                MaxFailures)

\* one _sync_folder call
Sync(folder_id, exclude, listing, summary) ==
    /\ clock < MaxSyncs
    /\ \E out \in CallOutcomes(folder_id, exclude, listing, summary) :
         \E s \in {sync_folder(favorite_folders, favorite_videos, video_cache,
                              vectorstore, clock + 1,
                              folder_id, exclude, listing, summary, out)} :
            /\ favorite_folders' = s.folders
            /\ favorite_videos' = s.rows
            /\ video_cache' = s.caches
            /\ vectorstore' = s.store
            /\ last' = call_record(s, folder_id, exclude, listing, summary, out)
    /\ clock' = clock + 1
    /\ UNCHANGED <<fetch_env, fetch_out, batch, asr_env, asr_out,
                   cache_rows, sessions, rag_last,
                   upd,
                   shared,
                   txn,
                   wait,
                   fetch_all,
                   indexers>>

NoBatch == [caller |-> "none", requested |-> <<>>, todo |-> <<>>,
            synced |-> <<>>, results |-> <<>>, status |-> "",
            total_added |-> 0, total_removed |-> 0,
            progress |-> 0, total_videos |-> 0, processed_videos |-> 0,
            progress_seen |-> {0}, exclude |-> {}, message |-> "",
            closed |-> FALSE]

\* the fetch_content results that carry a content
Fetched == {r \in FetchResults : ~r.raised}

\* The replace-if-better cache update (knowledge.py:307-339): the cache row
\* after a target's processing when another collection references the video,
\* so that nothing but the fetch branch can write the row.
cache_update(cache, fetch) ==
    process_target("A", cache, EmptyBag, 1,
                   [fetch |-> fetch, delete_ok |-> TRUE, add_ok |-> TRUE]).cache

\* the row _upsert_video_cache leaves for a video seen for the first time
FreshRow == upsert_video_cache(NoRow)

\* the rows the update starts from: a fresh row, or a row one fetch has written
StartRows == {FreshRow} \cup {cache_update(FreshRow, r) : r \in Fetched}

NoUpdate ==
    [start |-> NoRow, r1 |-> NoFetch, r2 |-> NoFetch, once |-> NoRow,
     twice |-> NoRow, r12 |-> NoRow, r21 |-> NoRow, step |-> 0]

\* a sync that has not reached the shared video: the row its session loaded
\* (seen), the row object as the sync left it (row), the content it fetched
NoWorker == [pc |-> "idle", seen |-> NoRow, row |-> NoRow, got |-> NoFetch]

\* the shared session before a request: nothing to sync, and the persisted
\* tables (what a new session would read)
NoTxn ==
    [status |-> "none", todo |-> <<>>, invalid |-> FALSE,
     folders |-> [f \in Folders |-> NoFolder], rows |-> {},
     caches |-> [v \in Videos |-> NoRow]]

\* knowledge.py:181-183: an empty listing of a collection said to hold videos
empty_listing_anomaly(listing, summary) ==
    /\ \A v \in Videos : listing[v] = "absent"
    /\ summary.ok /\ summary.media_count > 0

\* what the session holds when a statement of the removal phase raises
\* (knowledge.py:393-413, entered when removed is not empty)
pending_of(folders, folder_id, folder, removed, indexed) ==
    [reached |-> removed # {},
     folders |-> [folders EXCEPT ![folder_id] = folder],
     rows |-> indexed.rows, caches |-> indexed.caches, store |-> indexed.store]

members_until_removal(folders, rows, caches, store, folder_id, folder, current_bvids, existing_bvids, out) ==
    LET added == current_bvids \ existing_bvids
        caches1 == [v \in Videos |->
                      IF v \in current_bvids THEN upsert_video_cache(caches[v])
                      ELSE caches[v]]
        update_candidates ==
            {v \in (current_bvids \cap existing_bvids) :
                v \notin added /\ should_refresh_cache(caches1[v])}
        targets == added \cup update_candidates
    IN pending_of(folders, folder_id, folder, existing_bvids \ current_bvids,
                  index_targets(targets, caches1, store, rows, folder.id, out,
                                [NoLog EXCEPT !.total_targets = Cardinality(targets)]))

listed_until_removal(folders, rows, caches, store, folder_id, folder, current_bvids, out) ==
    members_until_removal(folders, rows, caches, store, folder_id, folder,
                          current_bvids, bvids_of(rows, folder.id), out)

\* _sync_folder up to the first statement of the removal phase
\* (knowledge.py:199-395): the collection's row and the cache rows are
\* written, the membership rows of the targets are added, no membership row is
\* deleted yet and last_sync_at is not set
sync_until_removal(folders, rows, caches, store, folder_id, exclude, listing, out) ==
    listed_until_removal(folders, rows, caches, store, folder_id,
                         get_or_create_folder(folders, folder_id,
                             Cardinality(video_map_keys(listing, exclude))),
                         video_map_keys(listing, exclude), out)

\* no transcription is being waited for
NoWait == [strategy |-> "none", pc |-> "idle", elapsed |-> 0, status |-> "PENDING", has_url |-> FALSE, out |-> "none"]

\* fetch_all_videos_content is not running
NoFetchAll == [pc |-> "idle", videos |-> <<>>, i |-> 0, results |-> <<>>, progress |-> <<>>]

\* a sync that has not reached the per-video loop for the shared video: the
\* membership count and the cache row it read, the row object as it left it
NoIndexer == [pc |-> "idle", count |-> 0, seen |-> NoRow, row |-> NoRow]

NoIndexers == [f \in Folders |-> NoIndexer]

NoEnv == CHOOSE e \in FetchEnvs : TRUE

Init ==
    /\ favorite_folders = [f \in Folders |-> NoFolder]
    /\ favorite_videos = {}
    /\ video_cache = [v \in Videos |-> NoRow]
    /\ vectorstore = EmptyBag
    /\ clock = 0
    /\ last = NoSync
    /\ fetch_env = NoEnv
    /\ fetch_out = NoCall
    /\ asr_env = NoAsrEnv
    /\ asr_out = NoAsrCall
    /\ cache_rows = {}
    /\ rag_last = NoRagCall
    /\ sessions = [f \in Folders |-> NoSession]
    /\ batch = NoBatch
    /\ indexers = NoIndexers
    /\ fetch_all = NoFetchAll
    /\ wait = NoWait
    /\ txn = NoTxn
    /\ shared = [f \in Folders |-> NoWorker]
    /\ upd = NoUpdate

Next ==
    \E f \in Folders, x \in Excludes :
       \E l \in Listings(f) : \E s \in SummariesFor(l) : Sync(f, x, l, s)

Spec == Init /\ [][Next]_vars

------------------------------------------------------------------------------
(* One fetch_content call *)

Fetch ==
    /\ ~fetch_out.called
    /\ fetch_out' = call_result(fetch_content(fetch_env))
    /\ UNCHANGED <<favorite_folders, favorite_videos, video_cache, vectorstore,
                   clock, last, fetch_env, batch, asr_env, asr_out,
                   cache_rows, sessions, rag_last,
                   upd,
                   shared,
                   txn,
                   wait,
                   fetch_all,
                   indexers>>

InitFetch ==
    /\ favorite_folders = [f \in Folders |-> NoFolder]
    /\ favorite_videos = {}
    /\ video_cache = [v \in Videos |-> NoRow]
    /\ vectorstore = EmptyBag
    /\ clock = 0
    /\ last = NoSync
    /\ fetch_env \in FetchEnvs
    /\ fetch_out = NoCall
    /\ asr_env = NoAsrEnv
    /\ asr_out = NoAsrCall
    /\ cache_rows = {}
    /\ rag_last = NoRagCall
    /\ sessions = [f \in Folders |-> NoSession]
    /\ batch = NoBatch
    /\ indexers = NoIndexers
    /\ fetch_all = NoFetchAll
    /\ wait = NoWait
    /\ txn = NoTxn
    /\ shared = [f \in Folders |-> NoWorker]
    /\ upd = NoUpdate

NextFetch == Fetch

SpecFetch == InitFetch /\ [][NextFetch]_vars

------------------------------------------------------------------------------
(* SpecAsr: one transcription call of ASRService *)

\* transcribe_url
TranscribeUrl ==
    /\ ~asr_out.called
    /\ asr_env.strategy = "url"
    /\ \E r \in {transcribe_sync(asr_env)} :
          asr_out' = [called |-> TRUE, raised |-> r.raised, text |-> r.text]
    /\ UNCHANGED <<favorite_folders, favorite_videos, video_cache, vectorstore,
                   clock, last, fetch_env, fetch_out, batch, asr_env,
                   cache_rows, sessions, rag_last,
                   upd,
                   shared,
                   txn,
                   wait,
                   fetch_all,
                   indexers>>

\* transcribe_local_file
TranscribeLocalFile ==
    /\ ~asr_out.called
    /\ asr_env.strategy = "local"
    /\ \E r \in {transcribe_local_file(asr_env)} :
          asr_out' = [called |-> TRUE, raised |-> r.raised, text |-> r.text]
    /\ UNCHANGED <<favorite_folders, favorite_videos, video_cache, vectorstore,
                   clock, last, fetch_env, fetch_out, batch, asr_env,
                   cache_rows, sessions, rag_last,
                   upd,
                   shared,
                   txn,
                   wait,
                   fetch_all,
                   indexers>>

InitAsr ==
    /\ favorite_folders = [f \in Folders |-> NoFolder]
    /\ favorite_videos = {}
    /\ video_cache = [v \in Videos |-> NoRow]
    /\ vectorstore = EmptyBag
    /\ clock = 0
    /\ last = NoSync
    /\ batch = NoBatch
    /\ indexers = NoIndexers
    /\ fetch_all = NoFetchAll
    /\ wait = NoWait
    /\ txn = NoTxn
    /\ shared = [f \in Folders |-> NoWorker]
    /\ upd = NoUpdate
    /\ fetch_env = NoEnv
    /\ fetch_out = NoCall
    /\ asr_env \in AsrEnvs
    /\ asr_out = NoAsrCall
    /\ cache_rows = {}
    /\ rag_last = NoRagCall
    /\ sessions = [f \in Folders |-> NoSession]

NextAsr == TranscribeUrl \/ TranscribeLocalFile

SpecAsr == InitAsr /\ [][NextAsr]_vars

------------------------------------------------------------------------------
(* SpecCache: syncs of different collections running at the same time, each *)
(* in its own database session                                             *)

\* syncs each collection runs in a behaviour
MaxRounds == 2

\* _sync_folder starts for collection folder_id with its own session
SessionBegin(folder_id) ==
    /\ sessions[folder_id].status = "idle"
    /\ sessions[folder_id].rounds < MaxRounds
    /\ sessions' = [sessions EXCEPT ![folder_id] =
                       [@ EXCEPT !.status = "syncing", !.todo = Shelf(folder_id),
                                 !.added = {}, !.updated = {}]]
    /\ UNCHANGED <<favorite_folders, favorite_videos, video_cache, vectorstore,
                   clock, last, fetch_env, fetch_out, batch, asr_env, asr_out,
                   cache_rows, rag_last,
                   upd,
                   shared,
                   txn,
                   wait,
                   fetch_all,
                   indexers>>

\* _upsert_video_cache for one listed video: select, then db.add of a new row
\* or an update of the row found
SessionUpsert(folder_id, bvid) ==
    /\ sessions[folder_id].status = "syncing"
    /\ bvid \in sessions[folder_id].todo
    /\ sessions' = [sessions EXCEPT ![folder_id] =
                       IF cache_selected(cache_rows, @, bvid)
                       THEN [@ EXCEPT !.todo = @ \ {bvid}, !.updated = @ \cup {bvid}]
                       ELSE [@ EXCEPT !.todo = @ \ {bvid}, !.added = @ \cup {bvid}]]
    /\ UNCHANGED <<favorite_folders, favorite_videos, video_cache, vectorstore,
                   clock, last, fetch_env, fetch_out, batch, asr_env, asr_out,
                   cache_rows, rag_last,
                   upd,
                   shared,
                   txn,
                   wait,
                   fetch_all,
                   indexers>>

\* the session's pending rows reach the table and are committed; a rejected
\* INSERT (IntegrityError) rolls the transaction back and ends the sync
SessionCommit(folder_id) ==
    /\ sessions[folder_id].status = "syncing"
    /\ sessions[folder_id].todo = {}
    /\ IF unique_violation(cache_rows, sessions[folder_id].added)
       THEN /\ cache_rows' = cache_rows
            /\ sessions' = [sessions EXCEPT ![folder_id] =
                               [@ EXCEPT !.status = "idle", !.added = {}, !.updated = {},
                                         !.rounds = @ + 1]]
       ELSE /\ cache_rows' = update_rows(
                                 insert_rows(cache_rows, sessions[folder_id].added, folder_id),
                                 sessions[folder_id].updated, folder_id)
            /\ sessions' = [sessions EXCEPT ![folder_id] =
                               [@ EXCEPT !.status = "idle", !.added = {}, !.updated = {},
                                         !.done = @ \cup sessions[folder_id].added
                                                    \cup sessions[folder_id].updated,
                                         !.rounds = @ + 1]]
    /\ UNCHANGED <<favorite_folders, favorite_videos, video_cache, vectorstore,
                   clock, last, fetch_env, fetch_out, batch, asr_env, asr_out, rag_last,
                   upd,
                   shared,
                   txn,
                   wait,
                   fetch_all,
                   indexers>>

NextCache ==
    \E folder_id \in Folders :
        \/ SessionBegin(folder_id)
        \/ \E bvid \in Videos : SessionUpsert(folder_id, bvid)
        \/ SessionCommit(folder_id)

SpecCache == Init /\ [][NextCache]_vars

------------------------------------------------------------------------------
(* SpecUpdate: the replace-if-better cache update applied to one cache row, *)
(* once and twice with one fetch result, and with two results in both orders *)

ApplyFirst ==
    /\ upd.step = 0
    /\ upd' = [upd EXCEPT !.once = cache_update(upd.start, upd.r1),
                          !.r12 = cache_update(upd.start, upd.r1),
                          !.r21 = cache_update(upd.start, upd.r2),
                          !.step = 1]
    /\ UNCHANGED <<favorite_folders, favorite_videos, video_cache, vectorstore,
                   clock, last, fetch_env, fetch_out, batch, asr_env, asr_out,
                   cache_rows, sessions, rag_last,
                   shared,
                   txn,
                   wait,
                   fetch_all,
                   indexers>>

ApplySecond ==
    /\ upd.step = 1
    /\ upd' = [upd EXCEPT !.twice = cache_update(upd.once, upd.r1),
                          !.r12 = cache_update(upd.r12, upd.r2),
                          !.r21 = cache_update(upd.r21, upd.r1),
                          !.step = 2]
    /\ UNCHANGED <<favorite_folders, favorite_videos, video_cache, vectorstore,
                   clock, last, fetch_env, fetch_out, batch, asr_env, asr_out,
                   cache_rows, sessions, rag_last,
                   shared,
                   txn,
                   wait,
                   fetch_all,
                   indexers>>

InitUpdate ==
    /\ favorite_folders = [f \in Folders |-> NoFolder]
    /\ favorite_videos = {}
    /\ video_cache = [v \in Videos |-> NoRow]
    /\ vectorstore = EmptyBag
    /\ clock = 0
    /\ last = NoSync
    /\ fetch_env = NoEnv
    /\ fetch_out = NoCall
    /\ asr_env = NoAsrEnv
    /\ asr_out = NoAsrCall
    /\ cache_rows = {}
    /\ rag_last = NoRagCall
    /\ sessions = [f \in Folders |-> NoSession]
    /\ batch = NoBatch
    /\ indexers = NoIndexers
    /\ fetch_all = NoFetchAll
    /\ wait = NoWait
    /\ txn = NoTxn
    /\ shared = [f \in Folders |-> NoWorker]
    /\ upd \in {[NoUpdate EXCEPT !.start = c, !.r1 = r1, !.r2 = r2, !.once = c,
                                 !.twice = c, !.r12 = c, !.r21 = c] :
                  c \in StartRows, r1 \in Fetched, r2 \in Fetched}

NextUpdate == ApplyFirst \/ ApplySecond

SpecUpdate == InitUpdate /\ [][NextUpdate]_vars

------------------------------------------------------------------------------
(* SpecShared: the syncs of two collections that both list video A run at   *)
(* the same time, each in its own session.  A sync gives the event loop up  *)
(* at its awaits: the select of the cache row, fetch_content, the commit.   *)

\* select(VideoCache).where(bvid == bvid): the session loads the committed row
SharedRead(f) ==
    /\ shared[f].pc = "idle"
    /\ shared' = [shared EXCEPT ![f] = [@ EXCEPT !.pc = "read",
                                                 !.seen = video_cache["A"],
                                                 !.row = video_cache["A"]]]
    /\ UNCHANGED <<favorite_folders, favorite_videos, video_cache, vectorstore,
                   clock, last, fetch_env, fetch_out, batch, asr_env, asr_out,
                   cache_rows, sessions, rag_last, upd,
                   txn,
                   wait,
                   fetch_all,
                   indexers>>

\* fetch_content, if the row read needs it, returns r, and the rule is applied
\* to the row object of this session (knowledge.py:311-339)
SharedFetch(f, r) ==
    /\ shared[f].pc = "read"
    /\ IF should_refresh_cache(shared[f].seen) THEN r # NoFetch ELSE r = NoFetch
    /\ shared' = [shared EXCEPT ![f] = [@ EXCEPT !.pc = "fetched", !.got = r,
                                                 !.row = cache_update(shared[f].seen, r)]]
    /\ UNCHANGED <<favorite_folders, favorite_videos, video_cache, vectorstore,
                   clock, last, fetch_env, fetch_out, batch, asr_env, asr_out,
                   cache_rows, sessions, rag_last, upd,
                   txn,
                   wait,
                   fetch_all,
                   indexers>>

\* db.commit() (knowledge.py:417): the attributes the sync changed are written
\* to the row by an UPDATE; an unchanged row object writes nothing
SharedCommit(f) ==
    /\ shared[f].pc = "fetched"
    /\ shared' = [shared EXCEPT ![f] = [@ EXCEPT !.pc = "done"]]
    /\ video_cache' = IF shared[f].row # shared[f].seen
                      THEN [video_cache EXCEPT !["A"] = shared[f].row]
                      ELSE video_cache
    /\ UNCHANGED <<favorite_folders, favorite_videos, vectorstore,
                   clock, last, fetch_env, fetch_out, batch, asr_env, asr_out,
                   cache_rows, sessions, rag_last, upd,
                   txn,
                   wait,
                   fetch_all,
                   indexers>>

InitShared ==
    /\ favorite_folders = [f \in Folders |-> NoFolder]
    /\ favorite_videos = {}
    /\ video_cache \in {[v \in Videos |-> IF v = "A" THEN c ELSE NoRow] : c \in StartRows}
    /\ vectorstore = EmptyBag
    /\ clock = 0
    /\ last = NoSync
    /\ fetch_env = NoEnv
    /\ fetch_out = NoCall
    /\ asr_env = NoAsrEnv
    /\ asr_out = NoAsrCall
    /\ cache_rows = {}
    /\ rag_last = NoRagCall
    /\ sessions = [f \in Folders |-> NoSession]
    /\ batch = NoBatch
    /\ indexers = NoIndexers
    /\ fetch_all = NoFetchAll
    /\ wait = NoWait
    /\ txn = NoTxn
    /\ upd = NoUpdate
    /\ shared = [f \in Folders |-> NoWorker]

NextShared ==
    \E f \in Folders :
        \/ SharedRead(f)
        \/ \E r \in FetchResults \cup {NoFetch} : SharedFetch(f, r)
        \/ SharedCommit(f)

SpecShared == InitShared /\ [][NextShared]_vars

------------------------------------------------------------------------------
(* SpecIndex: the syncs of two collections that both newly list video A run  *)
(* at the same time on one event loop, each in its own session.  A sync      *)
(* gives the loop up at its awaits only: the count of the membership rows    *)
(* and the select of the cache row, fetch_content, the commit.  The calls of *)
(* rag.delete_video and rag.add_video_content are synchronous and follow     *)
(* the last await of the try block with no await between them.               *)

\* knowledge.py:303-308: the committed membership rows of the video are
\* counted and its cache row is loaded
IndexRead(f) ==
    /\ indexers[f].pc = "idle"
    /\ indexers' = [indexers EXCEPT ![f] =
                       [@ EXCEPT !.pc = "read",
                                 !.count = global_count(favorite_videos, "A"),
                                 !.seen = video_cache["A"],
                                 !.row = video_cache["A"]]]
    /\ UNCHANGED <<favorite_folders, favorite_videos, video_cache, vectorstore,
                   clock, last, fetch_env, fetch_out, batch, asr_env, asr_out,
                   cache_rows, sessions, rag_last, upd, shared, txn, wait,
                   fetch_all>>

\* the outcomes of the collaborators that matter to the call: a fetch result
\* exactly when fetch_content is called, and a failing delete or add only when
\* the store is written (a delete fails on a store that holds the video)
IndexOutcomes(w, store) ==
    {o \in Outcomes :
        LET r == process_target("A", w.seen, store, w.count, o)
        IN /\ r.fetched <=> o.fetch # NoFetch
           /\ ~r.reindexed => o.delete_ok /\ o.add_ok
           /\ ~o.delete_ok => ChunkCount(store, "A") > 0}

\* knowledge.py:309-373: the rest of the try statement, from the return of
\* fetch_content on; the store is deleted from and added to in one step
IndexStore(f, o) ==
    /\ indexers[f].pc = "read"
    /\ o \in IndexOutcomes(indexers[f], vectorstore)
    /\ \E r \in {try_video("A", indexers[f].seen, vectorstore,
                           indexers[f].count, o)} :
          /\ vectorstore' = r.store
          /\ indexers' = [indexers EXCEPT ![f] =
                             [@ EXCEPT !.pc = "indexed", !.row = r.cache]]
    /\ UNCHANGED <<favorite_folders, favorite_videos, video_cache,
                   clock, last, fetch_env, fetch_out, batch, asr_env, asr_out,
                   cache_rows, sessions, rag_last, upd, shared, txn, wait,
                   fetch_all>>

\* knowledge.py:376-384, 417: the membership row is added and the session is
\* committed; the attributes the sync changed are written to the cache row
IndexCommit(f) ==
    /\ indexers[f].pc = "indexed"
    /\ indexers' = [indexers EXCEPT ![f] = [@ EXCEPT !.pc = "done"]]
    /\ favorite_videos' =
          favorite_videos \cup {[folder_id |-> favorite_folders[f].id, bvid |-> "A"]}
    /\ video_cache' = IF indexers[f].row # indexers[f].seen
                      THEN [video_cache EXCEPT !["A"] = indexers[f].row]
                      ELSE video_cache
    /\ UNCHANGED <<favorite_folders, vectorstore,
                   clock, last, fetch_env, fetch_out, batch, asr_env, asr_out,
                   cache_rows, sessions, rag_last, upd, shared, txn, wait,
                   fetch_all>>

\* both collections have their rows, no collection lists video A yet, the
\* video's cache row is there (_upsert_video_cache) and the store is empty
InitIndex ==
    /\ favorite_folders = [f \in Folders |-> [NoFolder EXCEPT !.id = f]]
    /\ favorite_videos = {}
    /\ video_cache \in {[v \in Videos |-> IF v = "A" THEN c ELSE NoRow] : c \in StartRows}
    /\ vectorstore = EmptyBag
    /\ clock = 0
    /\ last = NoSync
    /\ fetch_env = NoEnv
    /\ fetch_out = NoCall
    /\ asr_env = NoAsrEnv
    /\ asr_out = NoAsrCall
    /\ cache_rows = {}
    /\ rag_last = NoRagCall
    /\ sessions = [f \in Folders |-> NoSession]
    /\ batch = NoBatch
    /\ fetch_all = NoFetchAll
    /\ wait = NoWait
    /\ txn = NoTxn
    /\ upd = NoUpdate
    /\ shared = [f \in Folders |-> NoWorker]
    /\ indexers = NoIndexers

NextIndex ==
    \E f \in Folders :
        \/ IndexRead(f)
        \/ \E o \in Outcomes : IndexStore(f, o)
        \/ IndexCommit(f)

SpecIndex == InitIndex /\ [][NextIndex]_vars

------------------------------------------------------------------------------
(* SpecRag: calls of RAGService on the vector store *)

\* calls made on the vector store in a behaviour
MaxRagCalls == 3

\* RAGService.add_video_content: returns the number of documents added, 0
\* when there is too little content; an exception of add_documents is re-raised
AddVideoContent(bvid, content, add_ok) ==
    /\ rag_last.count < MaxRagCalls
    /\ IF NumChunks(content) = 0
       THEN /\ vectorstore' = vectorstore
            /\ rag_last' = [op |-> "add", bvid |-> bvid, content |-> content,
                            count |-> rag_last.count + 1, raised |-> FALSE,
                            before |-> rag_last.op, returned |-> 0]
       ELSE IF add_ok
       THEN /\ vectorstore' = add_video_content(vectorstore, bvid, content)
            /\ rag_last' = [op |-> "add", bvid |-> bvid, content |-> content,
                            count |-> rag_last.count + 1, raised |-> FALSE,
                            before |-> rag_last.op, returned |-> NumChunks(content)]
       ELSE /\ vectorstore' = vectorstore
            /\ rag_last' = [op |-> "add", bvid |-> bvid, content |-> content,
                            count |-> rag_last.count + 1, raised |-> TRUE,
                            before |-> rag_last.op, returned |-> 0]
    /\ UNCHANGED <<favorite_folders, favorite_videos, video_cache, clock, last,
                   fetch_env, fetch_out, batch, asr_env, asr_out, cache_rows, sessions,
                   upd,
                   shared,
                   txn,
                   wait,
                   fetch_all,
                   indexers>>

\* RAGService.delete_video: an exception of the collection's delete is re-raised
DeleteVideo(bvid, delete_ok) ==
    /\ rag_last.count < MaxRagCalls
    /\ vectorstore' = IF delete_ok THEN delete_video(vectorstore, bvid) ELSE vectorstore
    /\ rag_last' = [op |-> "delete", bvid |-> bvid,
                    content |-> IF rag_last.bvid = bvid THEN rag_last.content ELSE NoContent,
                    count |-> rag_last.count + 1, raised |-> ~delete_ok,
                    before |-> IF rag_last.bvid = bvid /\ ~rag_last.raised
                               THEN rag_last.op ELSE "none",
                    returned |-> 0]
    /\ UNCHANGED <<favorite_folders, favorite_videos, video_cache, clock, last,
                   fetch_env, fetch_out, batch, asr_env, asr_out, cache_rows, sessions,
                   upd,
                   shared,
                   txn,
                   wait,
                   fetch_all,
                   indexers>>

NextRag ==
    \E bvid \in Videos :
        \/ \E content \in RagContents, add_ok \in BOOLEAN :
              AddVideoContent(bvid, content, add_ok)
        \/ \E delete_ok \in BOOLEAN : DeleteVideo(bvid, delete_ok)

SpecRag == Init /\ [][NextRag]_vars

------------------------------------------------------------------------------
(* The callers that sync a list of collections: the endpoint sync_folders    *)
(* (knowledge.py:548-574) and the background task _build_knowledge_base_task *)
(* (knowledge.py:645-692)                                                    *)

\* collections in one request
MaxBatch == 2

SYNC_FOLDERS == "sync_folders"
BUILD == "build"

MSG_FAILED == "sync failed"

\* the requests: lists of distinct collection ids
Requests ==
    {q \in UNION {[1 .. n -> Folders] : n \in 0 .. MaxBatch} :
        \A i, j \in DOMAIN q : i # j => q[i] # q[j]}

\* the SyncResult of a collection whose sync returned
result_entry(folder_id, result) ==
    [folder_id |-> folder_id, total |-> result.total, added |-> result.added,
     removed |-> result.removed, indexed |-> result.indexed,
     message |-> result.message, last_sync_at |-> result.last_sync_at]

\* the SyncResult sync_folders records when _sync_folder raises
failed_entry(folder_id) ==
    [folder_id |-> folder_id, total |-> 0, added |-> 0, removed |-> 0,
     indexed |-> 0, message |-> MSG_FAILED, last_sync_at |-> 0]

\* a progress_cb that takes the total of the first collection for all
progress_cb_first_total(task, processed_count, total_count) ==
    LET total_videos == IF task.total_videos = 0 THEN total_count ELSE task.total_videos
        progress == IF processed_count # 0 /\ total_videos # 0
                    THEN (processed_count * 100) \div total_videos
                    ELSE task.progress
    IN [task EXCEPT !.total_videos = total_videos,
                    !.processed_videos = IF processed_count # 0 THEN processed_count ELSE @,
                    !.progress = progress,
                    !.progress_seen = @ \cup {progress}]

\* progress_cb (knowledge.py:653-662) on the task record: progress is
\* int(processed_count / total_videos * 100); progress_seen collects every
\* value the record's progress has held
progress_cb(task, processed_count, total_count) ==
    LET total_videos == IF total_count # 0 THEN total_count ELSE task.total_videos
        progress == IF processed_count # 0 /\ total_videos # 0
                    THEN (processed_count * 100) \div total_videos
                    ELSE task.progress
    IN [task EXCEPT !.total_videos = total_videos,
                    !.processed_videos = IF processed_count # 0 THEN processed_count ELSE @,
                    !.progress = progress,
                    !.progress_seen = @ \cup {progress}]

\* the calls _sync_folder makes to progress_callback: (0, total_targets)
\* before the loop (knowledge.py:296-297), then (i, total_targets) after the
\* i-th target (385-387)
RECURSIVE progress_calls(_, _, _)
progress_calls(task, processed_targets, total_targets) ==
    IF processed_targets = 0 THEN progress_cb(task, 0, total_targets)
    ELSE progress_cb(progress_calls(task, processed_targets - 1, total_targets),
                     processed_targets, total_targets)

\* exclude_bvids of a build request (BuildRequest.exclude_bvids): none, or
\* the video that both collections may list
BuildExcludes == {{}, {"A"}}

MSG_BUILT == "build done"
MSG_NO_FOLDERS == "no collections"
MSG_ERROR == "error text"

\* a task whose exception is not handled: the record is left as it is
task_abandoned(task) == [task EXCEPT !.closed = TRUE]

\* the handler of the build task (knowledge.py:689-692): the task is over
task_failed(task) ==
    [task EXCEPT !.status = "failed", !.message = MSG_ERROR, !.closed = TRUE]

\* the request arrives: sync_folders starts its loop, build_knowledge_base
\* creates the task record and hands the work to a background task
BatchStart(caller, requested, exclude) ==
    /\ batch.caller = "none"
    /\ caller = SYNC_FOLDERS => exclude = {}
    /\ batch' = [NoBatch EXCEPT !.caller = caller, !.requested = requested,
                                !.todo = requested, !.exclude = exclude,
                                !.status = IF caller = BUILD THEN "pending"
                                           ELSE "running"]
    /\ UNCHANGED <<favorite_folders, favorite_videos, video_cache, vectorstore,
                   clock, last, fetch_env, fetch_out, asr_env, asr_out,
                   cache_rows, sessions, rag_last,
                   upd,
                   shared,
                   txn,
                   wait,
                   fetch_all,
                   indexers>>

\* the background task begins (knowledge.py:625-627)
BuildTaskStart ==
    /\ batch.caller = BUILD
    /\ batch.status = "pending"
    /\ batch' = [batch EXCEPT !.status = "running"]
    /\ UNCHANGED <<favorite_folders, favorite_videos, video_cache, vectorstore,
                   clock, last, fetch_env, fetch_out, asr_env, asr_out,
                   cache_rows, sessions, rag_last,
                   upd,
                   shared,
                   txn,
                   wait,
                   fetch_all,
                   indexers>>

\* the task record after a _sync_folder call that was given progress_cb; the
\* anomaly branch returns before the first call of the callback
on_sync(task, s) ==
    IF task.caller = BUILD /\ s.result.message = MSG_DONE
    THEN progress_calls(task, s.log.processed_targets, s.log.total_targets)
    ELSE task

\* one turn of the caller's loop in which _sync_folder returns
BatchSync(folder_id, listing, summary) ==
    /\ batch.status = "running"
    /\ batch.todo # <<>>
    /\ folder_id = Head(batch.todo)
    /\ \E out \in CallOutcomes(folder_id, batch.exclude, listing, summary) :
          \E s \in {sync_folder(favorite_folders, favorite_videos, video_cache,
                                vectorstore, clock + 1,
                                folder_id, batch.exclude, listing, summary, out)} :
            /\ favorite_folders' = s.folders
            /\ favorite_videos' = s.rows
            /\ video_cache' = s.caches
            /\ vectorstore' = s.store
            /\ last' = call_record(s, folder_id, batch.exclude, listing, summary, out)
            /\ batch' = [on_sync(batch, s) EXCEPT
                           !.todo = Tail(batch.todo),
                           !.synced = Append(batch.synced, folder_id),
                           !.results =
                               IF batch.caller = SYNC_FOLDERS
                               THEN Append(batch.results,
                                           result_entry(folder_id, s.result))
                               ELSE batch.results,
                           !.total_added =
                               IF batch.caller = BUILD
                               THEN batch.total_added + s.result.added
                               ELSE batch.total_added,
                           !.total_removed =
                               IF batch.caller = BUILD
                               THEN batch.total_removed + s.result.removed
                               ELSE batch.total_removed]
    /\ clock' = clock + 1
    /\ UNCHANGED <<fetch_env, fetch_out, asr_env, asr_out,
                   cache_rows, sessions, rag_last,
                   upd,
                   shared,
                   txn,
                   wait,
                   fetch_all,
                   indexers>>

\* one turn of the caller's loop in which _sync_folder raises: the listing
\* request get_all_favorite_videos fails (knowledge.py:178), before anything is
\* written.  sync_folders catches it and records a failed entry; the loop of
\* the build task has no handler, and the exception ends the task: it leaves
\* through the finally clause (bili.close) to the handler of the task.
BatchSyncRaises ==
    /\ batch.status = "running"
    /\ batch.todo # <<>>
    /\ LET folder_id == Head(batch.todo)
       IN /\ last' = [NoSync EXCEPT !.kind = "raised", !.folder_id = folder_id]
          /\ batch' = IF batch.caller = SYNC_FOLDERS
                      THEN [batch EXCEPT
                              !.todo = Tail(batch.todo),
                              !.synced = Append(batch.synced, folder_id),
                              !.results = Append(batch.results,
                                                 failed_entry(folder_id))]
                      ELSE task_failed([batch EXCEPT
                              !.synced = Append(batch.synced, folder_id)])
    /\ clock' = clock + 1
    /\ UNCHANGED <<favorite_folders, favorite_videos, video_cache, vectorstore,
                   fetch_env, fetch_out, asr_env, asr_out,
                   cache_rows, sessions, rag_last,
                   upd,
                   shared,
                   txn,
                   wait,
                   fetch_all,
                   indexers>>

\* the loop is over: sync_folders returns its results, the build task is
\* marked completed
BatchFinish ==
    /\ batch.status = "running"
    /\ batch.todo = <<>>
    /\ batch' = IF batch.caller = SYNC_FOLDERS
                THEN [batch EXCEPT !.status = "returned"]
                ELSE IF batch.requested = <<>>
                THEN [batch EXCEPT !.status = "completed",
                                   !.progress = 100,
                                   !.message = MSG_NO_FOLDERS,
                                   !.progress_seen = @ \cup {100}]
                ELSE [batch EXCEPT !.status = "completed",
                                   !.progress = 100,
                                   !.processed_videos = Len(batch.requested),
                                   !.message = MSG_BUILT,
                                   !.progress_seen = @ \cup {100}]
    /\ UNCHANGED <<favorite_folders, favorite_videos, video_cache, vectorstore,
                   clock, last, fetch_env, fetch_out, asr_env, asr_out,
                   cache_rows, sessions, rag_last,
                   upd,
                   shared,
                   txn,
                   wait,
                   fetch_all,
                   indexers>>

\* the services of the task cannot be built (knowledge.py:628-635): the
\* exception reaches the handler of the task before any collection is synced
BuildTaskSetupRaises ==
    /\ batch.caller = BUILD
    /\ batch.status = "running"
    /\ batch.synced = <<>>
    /\ batch' = task_failed(batch)
    /\ UNCHANGED <<favorite_folders, favorite_videos, video_cache, vectorstore,
                   clock, last, fetch_env, fetch_out, asr_env, asr_out,
                   cache_rows, sessions, rag_last, upd, shared, txn, wait,
                   fetch_all, indexers>>

\* the finally clause of the build task (knowledge.py:686-687), reached with
\* the record marked completed: bili.close() returns, or it raises and the
\* handler of the task (689-692) marks the record failed
BuildTaskClose(ok) ==
    /\ batch.caller = BUILD
    /\ batch.status = "completed"
    /\ ~batch.closed
    /\ batch' = IF ok THEN [batch EXCEPT !.closed = TRUE] ELSE task_failed(batch)
    /\ UNCHANGED <<favorite_folders, favorite_videos, video_cache, vectorstore,
                   clock, last, fetch_env, fetch_out, asr_env, asr_out,
                   cache_rows, sessions, rag_last, upd, shared, txn, wait,
                   fetch_all, indexers>>

NextBatch ==
    \/ \E c \in {SYNC_FOLDERS, BUILD}, q \in Requests, x \in BuildExcludes :
          BatchStart(c, q, x)
    \/ BuildTaskSetupRaises
    \/ \E ok \in BOOLEAN : BuildTaskClose(ok)
    \/ \E f \in Folders : \E l \in Listings(f) : \E s \in SummariesFor(l) :
          BatchSync(f, l, s)
    \/ BuildTaskStart
    \/ BatchSyncRaises
    \/ BatchFinish

SpecBatch == Init /\ [][NextBatch]_vars

\* syncs that ran before the build request arrived
MaxPrior == 1

\* a sync of an earlier request (sync_folders or an earlier build)
PriorSync ==
    /\ batch.caller = "none"
    /\ clock < MaxPrior
    /\ Next

\* a build request that arrives when collections may have been synced before
NextBuild ==
    \/ PriorSync
    \/ \E q \in Requests, x \in BuildExcludes : BatchStart(BUILD, q, x)
    \/ BuildTaskStart
    \/ BuildTaskSetupRaises
    \/ \E f \in Folders : \E l \in Listings(f) : \E s \in SummariesFor(l) :
          BatchSync(f, l, s)
    \/ BatchSyncRaises
    \/ BatchFinish
    \/ \E ok \in BOOLEAN : BuildTaskClose(ok)

SpecBuild == Init /\ [][NextBuild]_vars

\* the turns of the caller's loop, whatever the collection answers
BatchTurn ==
    \/ \E f \in Folders : \E l \in Listings(f) : \E s \in SummariesFor(l) :
          BatchSync(f, l, s)
    \/ BatchSyncRaises

\* the close of the task's client, whatever it answers
BuildTaskCloses == \E ok \in BOOLEAN : BuildTaskClose(ok)

\* Every external call returns or raises and the event loop runs the
\* background task it was given (BackgroundTasks.add_task, knowledge.py:602):
\* no step of the task that can be taken is put off for ever.
SpecBatchFair ==
    /\ SpecBatch
    /\ WF_vars(BuildTaskStart)
    /\ WF_vars(BatchTurn)
    /\ WF_vars(BatchFinish)
    /\ WF_vars(BuildTaskCloses)

------------------------------------------------------------------------------
(* SpecSession: sync_folders runs the syncs of its request one after another *)
(* in one database session (knowledge.py:520, 548-572).  favorite_folders,   *)
(* favorite_videos and video_cache are the tables as that session sees them, *)
(* its uncommitted changes included; txn holds the tables as persisted.      *)

\* the request arrives: get_db opens a session (database.py:37-43)
SessionOpen(q) ==
    /\ txn.status = "none"
    /\ q # <<>>
    /\ clock < MaxSyncs
    /\ txn' = [txn EXCEPT !.status = "open", !.todo = q]
    /\ UNCHANGED <<favorite_folders, favorite_videos, video_cache, vectorstore,
                   clock, last, fetch_env, fetch_out, batch, asr_env, asr_out,
                   cache_rows, sessions, rag_last, upd, shared,
                   wait,
                   fetch_all,
                   indexers>>

\* one _sync_folder call that returns: at its commit (knowledge.py:417) all
\* that is pending in the session is persisted; the anomaly branch returns
\* without a commit
SessionSync(listing, summary) ==
    /\ txn.status = "open" /\ txn.todo # <<>> /\ ~txn.invalid
    /\ clock < MaxSyncs
    /\ listing \in Listings(Head(txn.todo))
    /\ \E out \in CallOutcomes(Head(txn.todo), {}, listing, summary) :
         \E s \in {sync_folder(favorite_folders, favorite_videos, video_cache,
                              vectorstore, clock + 1,
                              Head(txn.todo), {}, listing, summary, out)} :
            /\ favorite_folders' = s.folders
            /\ favorite_videos' = s.rows
            /\ video_cache' = s.caches
            /\ vectorstore' = s.store
            /\ last' = call_record(s, Head(txn.todo), {}, listing, summary, out)
            /\ txn' = IF empty_listing_anomaly(listing, summary)
                      THEN [txn EXCEPT !.todo = Tail(txn.todo)]
                      ELSE [txn EXCEPT !.todo = Tail(txn.todo),
                                       !.folders = s.folders, !.rows = s.rows,
                                       !.caches = s.caches]
    /\ clock' = clock + 1
    /\ UNCHANGED <<fetch_env, fetch_out, batch, asr_env, asr_out,
                   cache_rows, sessions, rag_last, upd, shared,
                   wait,
                   fetch_all,
                   indexers>>

\* one _sync_folder call in which a query of the removal phase raises (the
\* count at knowledge.py:394 or the delete at 408): the exception leaves
\* _sync_folder, sync_folders logs it (559-572) and goes on with the next
\* collection in the same session, which it does not roll back
SessionSyncQueryFails(listing, summary) ==
    /\ txn.status = "open" /\ txn.todo # <<>> /\ ~txn.invalid
    /\ clock < MaxSyncs
    /\ listing \in Listings(Head(txn.todo))
    /\ ~empty_listing_anomaly(listing, summary)
    /\ \E out \in CallOutcomes(Head(txn.todo), {}, listing, summary) :
         \E s \in {sync_until_removal(favorite_folders, favorite_videos, video_cache,
                                     vectorstore, Head(txn.todo), {}, listing, out)} :
            /\ s.reached
            /\ favorite_folders' = s.folders
            /\ favorite_videos' = s.rows
            /\ video_cache' = s.caches
            /\ vectorstore' = s.store
    /\ last' = [NoSync EXCEPT !.kind = "raised", !.folder_id = Head(txn.todo)]
    /\ txn' = [txn EXCEPT !.todo = Tail(txn.todo)]
    /\ clock' = clock + 1
    /\ UNCHANGED <<fetch_env, fetch_out, batch, asr_env, asr_out,
                   cache_rows, sessions, rag_last, upd, shared,
                   wait,
                   fetch_all,
                   indexers>>

\* one _sync_folder call whose commit (knowledge.py:417) fails in its flush:
\* the transaction is rolled back and the session refuses every later
\* statement until rollback() is called, which nothing in the request does.
\* What the vector store was made to hold stays.
SessionSyncCommitFails(listing, summary) ==
    /\ txn.status = "open" /\ txn.todo # <<>> /\ ~txn.invalid
    /\ clock < MaxSyncs
    /\ listing \in Listings(Head(txn.todo))
    /\ ~empty_listing_anomaly(listing, summary)
    /\ \E out \in CallOutcomes(Head(txn.todo), {}, listing, summary) :
         \E s \in {sync_folder(favorite_folders, favorite_videos, video_cache,
                              vectorstore, clock + 1,
                              Head(txn.todo), {}, listing, summary, out)} :
            vectorstore' = s.store
    /\ favorite_folders' = txn.folders
    /\ favorite_videos' = txn.rows
    /\ video_cache' = txn.caches
    /\ last' = [NoSync EXCEPT !.kind = "raised", !.folder_id = Head(txn.todo)]
    /\ txn' = [txn EXCEPT !.todo = Tail(txn.todo), !.invalid = TRUE]
    /\ clock' = clock + 1
    /\ UNCHANGED <<fetch_env, fetch_out, batch, asr_env, asr_out,
                   cache_rows, sessions, rag_last, upd, shared,
                   wait,
                   fetch_all,
                   indexers>>

\* one _sync_folder call in a session that awaits a rollback: its first
\* statement raises
SessionSyncRefused ==
    /\ txn.status = "open" /\ txn.todo # <<>> /\ txn.invalid
    /\ clock < MaxSyncs
    /\ last' = [NoSync EXCEPT !.kind = "raised", !.folder_id = Head(txn.todo)]
    /\ txn' = [txn EXCEPT !.todo = Tail(txn.todo)]
    /\ clock' = clock + 1
    /\ UNCHANGED <<favorite_folders, favorite_videos, video_cache, vectorstore,
                   fetch_env, fetch_out, batch, asr_env, asr_out,
                   cache_rows, sessions, rag_last, upd, shared,
                   wait,
                   fetch_all,
                   indexers>>

\* sync_folders returns and get_db closes the session (database.py:40-43):
\* what was not committed is dropped
SessionClose ==
    /\ txn.status = "open"
    /\ txn.todo = <<>>
    /\ favorite_folders' = txn.folders
    /\ favorite_videos' = txn.rows
    /\ video_cache' = txn.caches
    /\ txn' = [txn EXCEPT !.status = "none", !.todo = <<>>, !.invalid = FALSE]
    /\ UNCHANGED <<vectorstore,
                   clock, last, fetch_env, fetch_out, batch, asr_env, asr_out,
                   cache_rows, sessions, rag_last, upd, shared,
                   wait,
                   fetch_all,
                   indexers>>

NextSession ==
    \/ \E q \in Requests : SessionOpen(q)
    \/ \E l \in [Videos -> Entries] :
          \E s \in SummariesFor(l) :
             \/ SessionSync(l, s)
             \/ SessionSyncQueryFails(l, s)
             \/ SessionSyncCommitFails(l, s)
    \/ SessionSyncRefused
    \/ SessionClose

SpecSession == Init /\ [][NextSession]_vars

------------------------------------------------------------------------------
(* SpecWait: the wait for one transcription, one step of the code at a time. *)
(* Time is counted in polling intervals (time.sleep(1.5)); elapsed is       *)
(* time.time() - start.  "sdk" and "restful" are the two polling loops of   *)
(* the remote-URL strategy, "local" is the local-file strategy.             *)

\* self.timeout, in polling intervals
WaitTimeout == 2
\* the time after which the model stops counting
MaxElapsed == 5
\* httpx.get(url, headers=headers, timeout=30.0): the longest a RESTful status
\* query lasts, in polling intervals
MaxQueryTime == 1

Later(t, d) == IF t + d > MaxElapsed THEN MaxElapsed ELSE t + d

\* the scan of the results after the loop: a text when a subtask succeeded
\* with a URL
scan_results(w) ==
    IF w.status = "SUCCEEDED" /\ w.has_url THEN "text" ELSE "no_text"

\* the task is submitted and the wait begins: start = time.time()
\* (asr.py:272, 341); the local-file strategy goes to recognizer.call
\* (asr.py:151)
WaitStart(strategy, status0, has_url) ==
    /\ wait.pc = "idle"
    /\ strategy # "sdk" => status0 = "PENDING"
    /\ strategy = "local" => ~has_url
    /\ wait' = [strategy |-> strategy,
                pc |-> IF strategy = "local" THEN "call" ELSE "loop",
                elapsed |-> 0, status |-> status0, has_url |-> has_url,
                out |-> "none"]
    /\ UNCHANGED <<favorite_folders, favorite_videos, video_cache, vectorstore,
                   clock, last, fetch_env, fetch_out, batch, asr_env, asr_out,
                   cache_rows, sessions, rag_last, upd, shared, txn,
                   fetch_all,
                   indexers>>

\* the top of the loop of _transcribe_sync (asr.py:342-349): a final status
\* ends the loop, an elapsed time over the timeout returns None, else the
\* loop sleeps and asks again
SdkLoop ==
    /\ wait.strategy = "sdk" /\ wait.pc = "loop"
    /\ wait' = IF wait.status \in {"SUCCEEDED", "FAILED"}
               THEN [wait EXCEPT !.pc = "done", !.out = scan_results(wait)]
               ELSE IF wait.elapsed > WaitTimeout
               THEN [wait EXCEPT !.pc = "done", !.out = "no_text"]
               ELSE [wait EXCEPT !.pc = "fetch", !.elapsed = Later(@, 1)]
    /\ UNCHANGED <<favorite_folders, favorite_videos, video_cache, vectorstore,
                   clock, last, fetch_env, fetch_out, batch, asr_env, asr_out,
                   cache_rows, sessions, rag_last, upd, shared, txn,
                   fetch_all,
                   indexers>>

\* Transcription.fetch(task=task_id) returns a status or raises
\* (asr.py:350-351); the exception leaves the loop
SdkFetch(o) ==
    /\ wait.strategy = "sdk" /\ wait.pc = "fetch"
    /\ wait' = IF o = "raise" THEN [wait EXCEPT !.pc = "done", !.out = "raised"]
               ELSE [wait EXCEPT !.pc = "loop", !.status = o]
    /\ UNCHANGED <<favorite_folders, favorite_videos, video_cache, vectorstore,
                   clock, last, fetch_env, fetch_out, batch, asr_env, asr_out,
                   cache_rows, sessions, rag_last, upd, shared, txn,
                   fetch_all,
                   indexers>>

\* the top of the loop of _transcribe_sync_restful (asr.py:275-278)
RestLoop ==
    /\ wait.strategy = "restful" /\ wait.pc = "loop"
    /\ wait' = IF wait.elapsed > WaitTimeout
               THEN [wait EXCEPT !.pc = "done", !.out = "no_text"]
               ELSE [wait EXCEPT !.pc = "fetch"]
    /\ UNCHANGED <<favorite_folders, favorite_videos, video_cache, vectorstore,
                   clock, last, fetch_env, fetch_out, batch, asr_env, asr_out,
                   cache_rows, sessions, rag_last, upd, shared, txn,
                   fetch_all,
                   indexers>>

\* _fetch_transcription_task_restful returns after d intervals (asr.py:279-
\* 286): no output ("none": the query failed or answered nothing) or a
\* status that is not final makes the loop sleep and go on
RestFetch(o, d) ==
    /\ wait.strategy = "restful" /\ wait.pc = "fetch"
    /\ wait' = IF o \in {"SUCCEEDED", "FAILED"}
               THEN [wait EXCEPT !.pc = "done", !.status = o,
                                 !.elapsed = Later(@, d),
                                 !.out = scan_results([wait EXCEPT !.status = o])]
               ELSE [wait EXCEPT !.pc = "loop", !.elapsed = Later(@, d + 1)]
    /\ UNCHANGED <<favorite_folders, favorite_videos, video_cache, vectorstore,
                   clock, last, fetch_env, fetch_out, batch, asr_env, asr_out,
                   cache_rows, sessions, rag_last, upd, shared, txn,
                   fetch_all,
                   indexers>>

\* recognizer.call(input_path) returns a text, returns none, or raises and is
\* caught (asr.py:151-176)
LocalReturn(o) ==
    /\ wait.strategy = "local" /\ wait.pc = "call"
    /\ wait' = [wait EXCEPT !.pc = "done", !.out = o]
    /\ UNCHANGED <<favorite_folders, favorite_videos, video_cache, vectorstore,
                   clock, last, fetch_env, fetch_out, batch, asr_env, asr_out,
                   cache_rows, sessions, rag_last, upd, shared, txn,
                   fetch_all,
                   indexers>>

\* time passes while a call has not returned: Transcription.fetch
\* (asr.py:350), recognizer.call (asr.py:151)
WaitTick ==
    /\ \/ wait.strategy = "sdk" /\ wait.pc = "fetch"
       \/ wait.strategy = "local" /\ wait.pc = "call"
    /\ wait.elapsed < MaxElapsed
    /\ wait' = [wait EXCEPT !.elapsed = @ + 1]
    /\ UNCHANGED <<favorite_folders, favorite_videos, video_cache, vectorstore,
                   clock, last, fetch_env, fetch_out, batch, asr_env, asr_out,
                   cache_rows, sessions, rag_last, upd, shared, txn,
                   fetch_all,
                   indexers>>

SdkFetches == \E o \in {"RUNNING", "SUCCEEDED", "FAILED", "raise"} : SdkFetch(o)

RestFetches ==
    \E o \in {"none", "RUNNING", "SUCCEEDED", "FAILED"}, d \in 0 .. MaxQueryTime :
        RestFetch(o, d)

LocalReturns == \E o \in {"text", "no_text"} : LocalReturn(o)

NextWait ==
    \/ \E strategy \in {"sdk", "restful", "local"},
          status0 \in {"PENDING", "SUCCEEDED", "FAILED"}, has_url \in BOOLEAN :
          WaitStart(strategy, status0, has_url)
    \/ SdkLoop
    \/ SdkFetches
    \/ RestLoop
    \/ RestFetches
    \/ LocalReturns
    \/ WaitTick

SpecWait == Init /\ [][NextWait]_vars

\* The thread of the wait runs (asyncio.to_thread, asr.py:406-411): the steps
\* of the code are taken, and every status query returns, with a status, with
\* nothing or with an exception.  That the task itself ever finishes is not
\* assumed: the timeout is what the loops have against a task that does not,
\* and recognizer.call returns when its task has finished.
SpecWaitFair ==
    /\ SpecWait
    /\ WF_vars(SdkLoop)
    /\ WF_vars(SdkFetches)
    /\ WF_vars(RestLoop)
    /\ WF_vars(RestFetches)

------------------------------------------------------------------------------
(* SpecFetchAll: ContentFetcher.fetch_all_videos_content, one turn of its   *)
(* loop at a time                                                           *)

\* videos in one call
MaxItems == 2

\* an input video: its bvid ("" when it has none), what fetch_content does for
\* it, and what the progress callback does when it is called for it
Items == [bvid : {"", "A", "B"}, fetch : {"asr", "basic", "raise"}, callback : {"ok", "raise"}]

\* the VideoContent appended for a video: the content fetched, or the
\* error-tagged one of the handler (source basic_info, "处理失败: ...")
fetched_result(item) ==
    [bvid |-> item.bvid, error |-> FALSE,
     source |-> IF item.fetch = "asr" THEN ASR ELSE BASIC_INFO]

error_result(item) == [bvid |-> item.bvid, error |-> TRUE, source |-> BASIC_INFO]

\* one turn of the loop (content_fetcher.py:482-509) for the i-th video
fetch_one(call, item) ==
    IF item.bvid = "" THEN call
    ELSE IF item.fetch = "raise"
    THEN [call EXCEPT !.results = Append(@, error_result(item))]
    ELSE IF item.callback = "raise"
    THEN [call EXCEPT !.results = Append(Append(@, fetched_result(item)),
                                         error_result(item)),
                      !.progress = Append(@, [index |-> call.i + 1,
                                              total |-> Len(call.videos),
                                              bvid |-> item.bvid])]
    ELSE [call EXCEPT !.results = Append(@, fetched_result(item)),
                      !.progress = Append(@, [index |-> call.i + 1,
                                              total |-> Len(call.videos),
                                              bvid |-> item.bvid])]

FetchAllStart(videos) ==
    /\ fetch_all.pc = "idle"
    /\ fetch_all' = [NoFetchAll EXCEPT !.pc = "loop", !.videos = videos]
    /\ UNCHANGED <<favorite_folders, favorite_videos, video_cache, vectorstore,
                   clock, last, fetch_env, fetch_out, batch, asr_env, asr_out,
                   cache_rows, sessions, rag_last, upd, shared, txn, wait,
                   indexers>>

FetchAllItem ==
    /\ fetch_all.pc = "loop"
    /\ fetch_all.i < Len(fetch_all.videos)
    /\ fetch_all' = [fetch_one(fetch_all, fetch_all.videos[fetch_all.i + 1])
                        EXCEPT !.i = fetch_all.i + 1]
    /\ UNCHANGED <<favorite_folders, favorite_videos, video_cache, vectorstore,
                   clock, last, fetch_env, fetch_out, batch, asr_env, asr_out,
                   cache_rows, sessions, rag_last, upd, shared, txn, wait,
                   indexers>>

\* return results
FetchAllReturn ==
    /\ fetch_all.pc = "loop"
    /\ fetch_all.i = Len(fetch_all.videos)
    /\ fetch_all' = [fetch_all EXCEPT !.pc = "returned"]
    /\ UNCHANGED <<favorite_folders, favorite_videos, video_cache, vectorstore,
                   clock, last, fetch_env, fetch_out, batch, asr_env, asr_out,
                   cache_rows, sessions, rag_last, upd, shared, txn, wait,
                   indexers>>

NextFetchAll ==
    \/ \E videos \in SeqsUpTo(Items, MaxItems) : FetchAllStart(videos)
    \/ FetchAllItem
    \/ FetchAllReturn

SpecFetchAll == Init /\ [][NextFetchAll]_vars

------------------------------------------------------------------------------
(* Properties of fetch_content (SpecFetch) *)

\* the recognition service was reached and returned a transcript
Transcribed ==
    /\ fetch_out.called
    /\ ~((~fetch_env.cid_known \/ ~fetch_env.title_known) /\ fetch_env.info = "raise")
    /\ fetch_env.audio_url = "ok"
    /\ fetch_env.download = "ok"
    /\ fetch_env.converter = "ok"
    /\ fetch_env.recognition = "ok"
    /\ ~fetch_env.asr_raises

\* C7: Transcript sufficiency boundary.  A transcript of 49 characters or fewer
\* is discarded and fetch_content returns a basic_info result; a transcript of
\* 50 characters or more is returned, with source asr.
C7_TranscriptBoundary ==
    Transcribed =>
        /\ fetch_env.transcript <= 49 =>
              /\ fetch_out.content.source = BASIC_INFO
              /\ fetch_out.content.content.kind = "basic"
        /\ fetch_env.transcript >= 50 =>
              /\ fetch_out.content.source = ASR
              /\ fetch_out.content.content = AsrText(fetch_env.transcript)

\* a transcript of 49 characters was returned by the service and discarded
C7_Witness ==
    /\ Transcribed
    /\ fetch_env.transcript = 49
    /\ fetch_out.content.source = BASIC_INFO

\* C10: fetch_content is total.  Whatever fails among the metadata request,
\* the audio URL request, the download and the recognition, the call does not
\* raise and returns a content with a title, a non-empty text and a source
\* that is asr or basic_info.
C10_FetchTotal ==
    fetch_out.called =>
        /\ ~fetch_out.raised
        /\ fetch_out.content.source \in {ASR, BASIC_INFO}
        /\ fetch_out.content.title # ""
        /\ Truthy(fetch_out.content.content)

\* the recognition call raised, and the call returned a basic_info content
C10_Witness ==
    /\ fetch_out.called
    /\ fetch_env.cid_known /\ fetch_env.title_known
    /\ fetch_env.audio_url = "ok" /\ fetch_env.download = "ok"
    /\ fetch_env.asr_raises
    /\ fetch_env.info = "raise"
    /\ ~fetch_out.raised
    /\ fetch_out.content.source = BASIC_INFO

------------------------------------------------------------------------------
(* Properties of the sync engine (Spec) *)

\* the latest step was a _sync_folder call that returned
Returned == last.kind = "returned"

\* the valid video ids of the latest call's listing
Current == {v \in Videos : last.listing[v] = "valid" /\ v \notin last.exclude}

\* the membership stored now for the collection of the latest call
Membership == bvids_of(favorite_videos, favorite_folders[last.folder_id].id)

\* the rows of the other collections that hold video v
OtherRows(rows, v, id) == {r \in rows : r.bvid = v /\ r.folder_id # id}

\* C1: Anomaly protection.  A call on a collection whose stored membership is
\* not empty (and whose cached member count is not zero), in which the listing
\* comes back empty, leaves the membership rows and the chunks as they were
\* and returns the message of a skipped cycle, whatever the summary request
\* did.
C1_AnomalyProtection ==
    [][(/\ clock' # clock
        /\ last'.kind = "returned"
        /\ \A v \in Videos : last'.listing[v] = "absent"
        /\ last'.existing # {}
        /\ last'.media_count > 0)
       => /\ favorite_videos' = favorite_videos
          /\ vectorstore' = vectorstore
          /\ last'.result.message = MSG_SKIPPED]_vars

\* C2: Idempotence.  When a call repeats the call before it (same collection,
\* same listing, same summary) and the fetches made in both calls return the
\* same, it reports added = 0 and removed = 0 and leaves every video with as
\* many chunks as before.
C2_Idempotence ==
    [][(/\ clock' # clock
        /\ last'.kind = "returned"
        /\ last'.again
        /\ last'.same_fetch)
       => /\ last'.result.added = 0
          /\ last'.result.removed = 0
          /\ \A v \in Videos :
                ChunkCount(vectorstore', v) = ChunkCount(vectorstore, v)]_vars

\* a collection with an indexed member was synced twice with the same
\* listing, and a fetch was repeated with the same result
C2_Witness ==
    /\ Returned /\ last.again /\ last.same_fetch
    /\ last.result.message = MSG_DONE
    /\ last.result.total > 0
    /\ \E v \in Current : last.fetched[v] # NoFetch /\ ChunkCount(vectorstore, v) > 0

\* C3: Membership diff.  Every call that is not skipped reports
\* added = |current \ existing| and removed = |existing \ current|, current
\* being the valid listed ids and existing the membership stored before the
\* call, and indexed = the membership it leaves, which is current.
C3_MembershipDiff ==
    (Returned /\ last.result.message = MSG_DONE) =>
        /\ last.result.added = Cardinality(Current \ last.existing)
        /\ last.result.removed = Cardinality(last.existing \ Current)
        /\ last.result.total = Cardinality(Current)
        /\ last.result.indexed = Cardinality(Membership)
        /\ Membership = Current

\* the collection held A and B; B was removed remotely, and the call reported
\* added 0, removed 1, indexed 1
C3_Witness ==
    /\ Returned /\ last.result.message = MSG_DONE
    /\ last.existing = {"A", "B"}
    /\ Current = {"A"}
    /\ last.listing["B"] = "absent"
    /\ last.result.added = 0 /\ last.result.removed = 1
    /\ last.result.indexed = 1

\* C4: De-duplication across collections.  A call that removes a video from a
\* collection while another collection still holds it deletes none of its
\* chunks; the chunks of a video that the call does not index change only when
\* the call removes the video from the last collection that held it.
C4_SharedChunksKept ==
    [][(clock' # clock /\ last'.kind = "returned")
       => \A v \in Videos :
            LET id == favorite_folders[last'.folder_id].id
                removed == v \in last'.existing /\ last'.listing[v] # "valid"
            IN /\ (removed /\ OtherRows(favorite_videos, v, id) # {})
                    => ChunksOf(vectorstore', v) = ChunksOf(vectorstore, v)
               /\ (last'.listing[v] # "valid"
                     /\ ChunksOf(vectorstore', v) # ChunksOf(vectorstore, v))
                    => /\ removed
                       /\ {r \in favorite_videos' : r.bvid = v} = {}]_vars

\* A was removed from one collection, another collection still holds it, and
\* its chunks are still indexed
C4_Witness ==
    /\ Returned /\ last.result.message = MSG_DONE
    /\ "A" \in last.existing /\ "A" \notin Current
    /\ last.result.removed > 0
    /\ global_count(favorite_videos, "A") = 1
    /\ ChunkCount(vectorstore, "A") > 0

\* C5: Replace-if-better monotonicity.  The rank of the source stored in a
\* video's cache row never decreases from one call to the next.
C5_RankMonotonic ==
    [][\A v \in Videos :
          source_priority(video_cache'[v].content_source)
              >= source_priority(video_cache[v].content_source)]_vars

\* A was a member with a cache row, was fetched again by the latest call, and
\* its cache row now holds the transcript
C5_Witness ==
    /\ Returned
    /\ "A" \in last.existing /\ "A" \in Current
    /\ last.fetched["A"] # NoFetch
    /\ last.fetched["A"].content.source = ASR
    /\ video_cache["A"].content_source = ASR

\* C6: A video's chunks come from its current cache row.  After every call,
\* also one in which a delete or an add failed, each chunk of a video carries
\* the text and the source of its cache row, and no chunk is there twice.
C6_ChunksFromCurrentCache ==
    \A v \in Videos :
        \A d \in DOMAIN ChunksOf(vectorstore, v) :
            /\ d.text = Strip(video_cache[v].content)
            /\ d.source = video_cache[v].content_source
            /\ vectorstore[d] = 1

\* C8: An indexing failure does not abort the membership commit.  A call in
\* which a fetch, a delete or an add fails still returns; the membership it
\* leaves is the current valid listing (the failed video's row included), the
\* collection's last_sync_at is the time of the call, and every listed video
\* whose try statement did not fail has a cache row with content.
C8_FailureDoesNotAbort ==
    /\ last.kind # "raised"
    /\ (Returned /\ last.result.message = MSG_DONE) =>
          /\ Membership = Current
          /\ favorite_folders[last.folder_id].last_sync_at = clock
          /\ last.result.last_sync_at = clock
          /\ \A v \in Current \ last.warned : Truthy(video_cache[v].content)

\* A and B were added by one call; A's try statement failed, A's row was
\* written all the same, and B was indexed
C8_Witness ==
    /\ Returned /\ last.result.message = MSG_DONE
    /\ last.existing = {}
    /\ Current = {"A", "B"}
    /\ last.warned = {"A"}
    /\ Membership = {"A", "B"}
    /\ ChunkCount(vectorstore, "A") = 0
    /\ ChunkCount(vectorstore, "B") > 0
    /\ favorite_folders[last.folder_id].last_sync_at = clock

------------------------------------------------------------------------------
(* Properties of the callers (SpecBatch) *)

\* the caller is done with its request
BatchOver == batch.status \in {"returned", "completed", "failed"}

\* C9: Hard-failure isolation.  When the sync of one collection raises, every
\* remaining collection of the request is still synced: at the end every
\* requested collection has been synced, in request order, and sync_folders
\* returns one entry per requested collection, in request order.
C9_HardFailureIsolation ==
    BatchOver =>
        /\ batch.synced = batch.requested
        /\ batch.caller = SYNC_FOLDERS =>
              /\ Len(batch.results) = Len(batch.requested)
              /\ \A i \in DOMAIN batch.requested :
                    batch.results[i].folder_id = batch.requested[i]

\* a local-file transcription attempt was made: the audio URL was obtained and
\* _try_asr_with_local_audio ran
Attempted ==
    /\ fetch_out.called
    /\ ~((~fetch_env.cid_known \/ ~fetch_env.title_known) /\ fetch_env.info = "raise")
    /\ fetch_env.audio_url = "ok"

\* C11: once a local-file transcription attempt has returned, whatever its exit
\* path (success, download failure, too-small file, missing or failing
\* converter, missing API key, recognition exception), no downloaded or
\* transcoded audio file created by the attempt remains.
C11_ArtifactCleanup == Attempted => fetch_out.files = {}

\* C12: with an API key configured, a transcription call of either strategy
\* (remote URL, local file) never raises to its caller: a timeout, a failed
\* submission, a failure while the status is polled, a failed task and a
\* result without text all come back as "no transcript".
C12_FailureIsAValue ==
    (asr_out.called /\ ~asr_env.asr_raises) => ~asr_out.raised

\* the cache entries of a video
EntriesOf(bvid) == {r \in cache_rows : r.bvid = bvid}

\* C13: whatever the interleaving of concurrent syncs of collections that share
\* a video, the table holds at most one cache entry per video, and that entry
\* is the one every collection that committed an upsert of the video wrote.
C13_OneCacheEntryPerVideo ==
    \A bvid \in Videos :
        /\ Cardinality(EntriesOf(bvid)) <= 1
        /\ \A folder_id \in Folders :
               bvid \in sessions[folder_id].done =>
                   \E r \in EntriesOf(bvid) : folder_id \in r.writers

\* two syncs both found no entry for the shared video A and both added one;
\* the first committed its row, the INSERT of the second was rejected
C13_Witness ==
    /\ EntriesOf("A") # {}
    /\ \E folder_id \in Folders :
           /\ sessions[folder_id].rounds = 1
           /\ sessions[folder_id].done = {}
           /\ \A r \in EntriesOf("A") : folder_id \notin r.writers

\* C14: Removal needs two confirmations.  When the call before was a sync of
\* the same collection whose listing contained member v, a call whose
\* non-empty listing omits v (one omitting listing so far) removes neither
\* the membership row of v nor its chunks.
C14_RemovalNeedsTwoListings ==
    [][(/\ clock' # clock
        /\ last.kind = "returned" /\ last'.kind = "returned"
        /\ last'.folder_id = last.folder_id
        /\ \E w \in Videos : last'.listing[w] = "valid")
       => \A v \in Videos :
            (/\ last.listing[v] = "valid"
             /\ v \in last'.existing
             /\ last'.listing[v] = "absent")
            => /\ v \in bvids_of(favorite_videos', favorite_folders'[last'.folder_id].id)
               /\ ChunksOf(vectorstore', v) = ChunksOf(vectorstore, v)]_vars

\* C15: Chunking round trip.  Whatever the vector store holds, a delete_video
\* of a video that follows an add_video_content of that video leaves no chunk
\* carrying the video's id and leaves the chunks of every other video as they
\* were.
C15_AddDeleteRoundTrip ==
    [][(/\ rag_last'.count # rag_last.count
        /\ rag_last'.op = "delete" /\ ~rag_last'.raised
        /\ rag_last'.before = "add")
       => /\ ChunksOf(vectorstore', rag_last'.bvid) = EmptyBag
          /\ \A u \in Videos \ {rag_last'.bvid} :
                ChunksOf(vectorstore', u) = ChunksOf(vectorstore, u)]_vars

\* a content of two chunks was added for a video and the video was then
\* deleted, while the store held chunks of the other video
C15_Witness ==
    /\ rag_last.op = "delete" /\ ~rag_last.raised /\ rag_last.before = "add"
    /\ NumChunks(rag_last.content) = 2
    /\ ChunkCount(vectorstore, rag_last.bvid) = 0
    /\ \E u \in Videos \ {rag_last.bvid} : ChunkCount(vectorstore, u) > 0

\* the content text is empty or blank
EmptyContent(content) == ~Truthy(Strip(content.content))

\* C17: add_video_content returns 0, adds no chunk and does not raise when the
\* content text of the video is empty, whatever its title.
C17_EmptyContentIsNoOp ==
    [][(/\ rag_last'.count # rag_last.count
        /\ rag_last'.op = "add"
        /\ EmptyContent(rag_last'.content))
       => /\ rag_last'.returned = 0
          /\ ~rag_last'.raised
          /\ vectorstore' = vectorstore]_vars

\* C16: Task record range.  The status of a build task record is always one
\* of pending, running, completed, failed, and every value its progress holds
\* is an integer from 0 to 100, whatever the collections requested and the
\* number of videos indexed for each.
C16_TaskRecordRange ==
    batch.caller = BUILD =>
        /\ batch.status \in {"pending", "running", "completed", "failed"}
        /\ batch.progress \in 0 .. 100
        /\ batch.progress_seen \subseteq 0 .. 100

\* a build task over two collections went through a progress strictly between
\* 0 and 100 and is completed at 100, the second collection having fewer
\* targets than the first
C16_Witness ==
    /\ batch.caller = BUILD
    /\ Len(batch.requested) = 2
    /\ batch.status = "completed" /\ batch.progress = 100
    /\ \E p \in batch.progress_seen : 0 < p /\ p < 100
    /\ batch.total_videos = 1

\* the video ids that have a cache entry
Cached(caches) == {v \in Videos : caches[v].present}

\* C18: Cache entries are never deleted by sync.  No sync call removes a cache
\* entry: the set of cached video ids never shrinks, and the entry of a video
\* is still there after the video has left every collection.
C18_CacheNeverShrinks ==
    [][Cached(video_cache) \subseteq Cached(video_cache')]_vars

\* the latest call removed A from its collection, no collection holds A any
\* more, its chunks are gone, and A still has its cache entry and content
C18_Witness ==
    /\ Returned /\ last.result.message = MSG_DONE
    /\ "A" \in last.existing
    /\ {r \in favorite_videos : r.bvid = "A"} = {}
    /\ ChunkCount(vectorstore, "A") = 0
    /\ video_cache["A"].present
    /\ Truthy(video_cache["A"].content)

\* C19: Zero-chunk recovery.  When a video that is a member of a collection
\* has no chunk (an earlier re-index deleted its chunks and the add failed),
\* the next sync of that collection that lists the video and in which no call
\* made for it fails leaves the video with chunks again.
C19_ZeroChunkRecovery ==
    [][(/\ clock' # clock
        /\ last'.kind = "returned"
        /\ last'.result.message = MSG_DONE)
       => \A v \in Videos :
            (/\ v \in last'.existing
             /\ last'.listing[v] = "valid"
             /\ ChunkCount(vectorstore, v) = 0
             /\ v \notin last'.warned)
            => ChunkCount(vectorstore', v) > 0]_vars

\* C20: An anomalous cycle returns the previous indexed count.  In a call
\* skipped for an empty listing, the indexed value returned is the number of
\* membership rows stored for that collection before the call.
C20_SkippedReturnsStoredCount ==
    (Returned /\ last.result.message = MSG_SKIPPED) =>
        last.result.indexed = Cardinality(last.existing)

\* the latest call got an empty listing while the summary reported members
Anomalous(call) ==
    /\ call.kind = "returned"
    /\ \A v \in Videos : call.listing[v] = "absent"
    /\ call.summary.ok /\ call.summary.media_count > 0

\* C21: An anomalous cycle mutates nothing.  When the listing is empty and the
\* summary reports a non-zero count, the call changes no collection row, no
\* membership row, no cache row and no chunk, stores no last-sync time, and
\* returns added = 0 and removed = 0.
C21_AnomalyMutatesNothing ==
    [][(clock' # clock /\ Anomalous(last'))
       => /\ favorite_folders' = favorite_folders
          /\ favorite_videos' = favorite_videos
          /\ video_cache' = video_cache
          /\ vectorstore' = vectorstore
          /\ last'.result.added = 0
          /\ last'.result.removed = 0]_vars

\* a collection with a stored, indexed member got an empty listing while its
\* summary reported one member; the member and its chunks are still there
C21_Witness ==
    /\ Anomalous(last)
    /\ last.existing # {}
    /\ Membership = last.existing
    /\ \E v \in last.existing : ChunkCount(vectorstore, v) > 0
    /\ favorite_folders[last.folder_id].last_sync_at < clock

\* C22: Re-index trigger.  A sync re-indexes a video only if it replaced the
\* video's cache entry in this call or the video had no chunk in the vector
\* store when the call began.
C22_ReindexTrigger ==
    [][(clock' # clock /\ last'.kind = "returned")
       => \A v \in last'.reindexed :
            v \in last'.replaced \/ ChunkCount(vectorstore, v) = 0]_vars

\* C23: The replace-if-better cache update is idempotent and commutative.
\* Applying one fetch result twice leaves the cache row that applying it once
\* leaves, and applying two fetch results in either order leaves the same
\* source and text.
C23_UpdateIdempotentCommutative ==
    upd.step = 2
        => /\ upd.twice = upd.once
           /\ upd.r12.content = upd.r21.content
           /\ upd.r12.content_source = upd.r21.content_source

\* the rank of the best source a sync obtained for the shared video
BestObtained ==
    CHOOSE n \in 0 .. 4 :
        /\ \A f \in Folders : source_priority(shared[f].got.content.source) <= n
        /\ \E f \in Folders : source_priority(shared[f].got.content.source) = n

\* C24: Concurrent syncs keep the better content.  When the syncs of two
\* collections that share a video have both committed, the video's cache row
\* holds a source ranked at least as high as the best either sync obtained.
C24_ConcurrentSyncsKeepBetter ==
    (\A f \in Folders : shared[f].pc = "done")
        => source_priority(video_cache["A"].content_source) >= BestObtained

\* the membership persisted for collection f in the tables t
PersistedMembers(t, f) == bvids_of(t.rows, t.folders[f].id)

\* C25: Last-sync timestamp and membership delta are committed together.  No
\* step persists a change of a collection's membership without persisting a
\* new last-sync timestamp of that collection, the syncs that raise part-way
\* in the session shared by the collections of one request included.
C25_TimestampWithMembership ==
    [][\A f \in Folders :
          PersistedMembers(txn', f) # PersistedMembers(txn, f)
              => txn'.folders[f].last_sync_at # txn.folders[f].last_sync_at]_vars

StaleRow(row) ==
    \/ ~row.present
    \/ Strip(row.content).len < 50
    \/ row.content_source \in {"", BASIC_INFO}

\* C27: Update-candidate classification.  In a call that is not skipped, a
\* video that is in the valid listing and was a member before the call is
\* fetched exactly when its cache row, as the call found it, is absent, short
\* or of source basic_info or unset; every other such video is neither fetched
\* nor re-indexed.
C27_UpdateCandidates ==
    [][(clock' # clock /\ last'.kind = "returned" /\ last'.result.message = MSG_DONE)
       => \A v \in last'.existing :
             (last'.listing[v] = "valid" /\ v \notin last'.exclude)
                 => /\ StaleRow(video_cache[v]) <=> last'.fetched[v] # NoFetch
                    /\ ~StaleRow(video_cache[v]) => v \notin last'.reindexed]_vars

\* A and B were members and are listed again: A's cache row holds a transcript
\* and A was left alone, B's row holds basic_info and B was fetched again
C27_Witness ==
    /\ Returned /\ last.result.message = MSG_DONE
    /\ last.existing = {"A", "B"} /\ Current = {"A", "B"}
    /\ last.fetched["A"] = NoFetch /\ "A" \notin last.reindexed
    /\ video_cache["A"].content_source = ASR
    /\ last.fetched["B"] # NoFetch
    /\ video_cache["B"].content_source = BASIC_INFO

\* the cache row holds a transcript of at least 50 characters
SufficientTranscript(row) ==
    row.present /\ row.content_source = ASR /\ Strip(row.content).len >= 50

\* C28: Cached transcription is reused.  In a call that is not skipped, a
\* listed video whose cache row holds a sufficient transcript is not fetched
\* and its row keeps its source and its text; it is re-indexed only when no
\* collection referenced it, and then, if the store's delete and add did not
\* fail, its chunks carry the cached text with source asr.
C28_CachedTranscriptReused ==
    [][(clock' # clock /\ last'.kind = "returned" /\ last'.result.message = MSG_DONE)
       => \A v \in Videos :
             (last'.listing[v] = "valid" /\ v \notin last'.exclude
              /\ SufficientTranscript(video_cache[v]))
                 => /\ last'.fetched[v] = NoFetch
                    /\ video_cache'[v].content = video_cache[v].content
                    /\ video_cache'[v].content_source = video_cache[v].content_source
                    /\ v \in last'.reindexed => global_count(favorite_videos, v) = 0
                    /\ (v \in last'.reindexed /\ v \notin last'.warned
                        /\ v \notin last'.undeleted)
                           => /\ ChunkCount(vectorstore', v) > 0
                              /\ \A d \in DOMAIN ChunksOf(vectorstore', v) :
                                    /\ d.text = Strip(video_cache[v].content)
                                    /\ d.source = ASR]_vars

\* A's transcript was cached while A had no chunk and no membership row; the
\* call added A, did not fetch it, and indexed it from the cached text
C28_Witness ==
    /\ Returned /\ last.result.message = MSG_DONE
    /\ "A" \in Current /\ "A" \notin last.existing
    /\ last.fetched["A"] = NoFetch
    /\ "A" \in last.reindexed /\ "A" \notin last.warned
    /\ "A" \notin last.replaced
    /\ video_cache["A"].content_source = ASR
    /\ ChunkCount(vectorstore, "A") > 0

\* the entries of the latest call's listing that are flagged invalid or carry
\* a placeholder title
Invalid == {v \in Videos : last.listing[v] \in {"invalid", "placeholder"}}

\* C29: Invalid entries are never members.  After a call that returns and is
\* not skipped, no listed entry that is flagged invalid or titled with a
\* deleted-content placeholder is in the collection's membership: it is not
\* counted in the total, not added, and counted as removed if it was a member.
C29_InvalidNeverMember ==
    (Returned /\ last.result.message = MSG_DONE) =>
        /\ Invalid \cap Membership = {}
        /\ last.result.total =
              Cardinality({v \in Videos : last.listing[v] # "absent"} \ Invalid)
        /\ last.result.added <= Cardinality(Membership \ last.existing)
        /\ last.result.removed >= Cardinality(Invalid \cap last.existing)

\* A was a member and is now listed under a placeholder title: the call
\* removed it from the membership
C29_Witness ==
    /\ Returned /\ last.result.message = MSG_DONE
    /\ last.listing["A"] = "placeholder"
    /\ "A" \in last.existing
    /\ "A" \notin Membership
    /\ last.result.removed = 1

\* the calls of a transcription attempt: audio resolution, download,
\* conversion, recognition
TranscriptionCalls(calls) ==
    {i \in DOMAIN calls : calls[i] # "video_info"}

\* C30: Metadata resolution precedes transcription.  When fetch_content is
\* called without the title or without the content id, its first call is the
\* metadata request, made before any call of a transcription attempt; when
\* that request fails, no other call is made, no file is left, and the result
\* is a basic_info content holding the error placeholder.
C30_MetadataFirst ==
    (fetch_out.called /\ (~fetch_env.cid_known \/ ~fetch_env.title_known)) =>
        /\ fetch_out.calls # <<>>
        /\ fetch_out.calls[1] = "video_info"
        /\ fetch_env.info = "raise" =>
              /\ TranscriptionCalls(fetch_out.calls) = {}
              /\ fetch_out.calls = <<"video_info">>
              /\ fetch_out.files = {}
              /\ ~fetch_out.raised
              /\ fetch_out.content.source = BASIC_INFO
              /\ fetch_out.content.content = ErrorText

\* the content id was missing, the metadata request failed although the audio
\* could have been transcribed, and the call returned the placeholder
C30_Witness ==
    /\ fetch_out.called
    /\ ~fetch_env.cid_known /\ fetch_env.title_known
    /\ fetch_env.info = "raise"
    /\ fetch_env.audio_url = "ok" /\ fetch_env.download = "ok"
    /\ fetch_env.converter = "ok" /\ fetch_env.recognition = "ok"
    /\ fetch_env.transcript >= MinTranscriptLen
    /\ fetch_out.calls = <<"video_info">>
    /\ fetch_out.content.content = ErrorText

\* a transcription is being waited for
Waiting == wait.pc \in {"loop", "fetch", "call"}

\* C31: The transcription wait always terminates.  Every wait that began
\* ends, with a final status, or with no transcript once the elapsed time is
\* over the timeout, in the remote-URL and in the local-file strategy.
C31_WaitTerminates == Waiting ~> wait.pc = "done"

\* C32: Transcoding degrades gracefully.  When the conversion tool is missing
\* or the transcode fails, a local-file transcription of an existing file goes
\* on with the original audio: what the recognition service answers for it is
\* what the call returns.
C32_TranscodeDegrades ==
    (/\ asr_out.called
     /\ asr_env.strategy = "local"
     /\ ~asr_env.asr_raises
     /\ asr_env.exists
     /\ asr_env.converter # "ok"
     /\ asr_env.recognition = "ok")
        => asr_out.text = AsrText(asr_env.transcript)

\* the positions of the input videos that have an identifier
RECURSIVE Identified(_)
Identified(videos) ==
    IF videos = <<>> THEN <<>>
    ELSE IF Head(videos).bvid = "" THEN Identified(Tail(videos))
    ELSE <<Head(videos)>> \o Identified(Tail(videos))

\* C33: Batch fetch.  fetch_all_videos_content returns one result for each
\* input video that has an identifier, in input order; the result of a video
\* whose fetch or whose progress callback raised is the error-tagged basic
\* one, and the callback was invoked with (index, total) for each such video
\* whose fetch returned.
C33_OneResultPerVideo ==
    fetch_all.pc = "returned" =>
        LET ident == Identified(fetch_all.videos)
        IN /\ Len(fetch_all.results) = Len(ident)
           /\ \A k \in 1 .. Len(ident) :
                 k <= Len(fetch_all.results) =>
                    /\ fetch_all.results[k].bvid = ident[k].bvid
                    /\ fetch_all.results[k].error
                          <=> (ident[k].fetch = "raise" \/ ident[k].callback = "raise")

\* no membership row references the video, whatever the collection
Unreferenced(rows, bvid) == global_count(rows, bvid) = 0

\* no video without a membership row has a chunk in the vector store
NoOrphanChunks(rows, store) ==
    \A v \in Videos : Unreferenced(rows, v) => ChunkCount(store, v) = 0

\* C34: No orphan chunks.  A sync that completes in a state without orphan
\* chunks leaves no orphan chunks: after it, a video that no membership row
\* references has no chunk in the vector store, also when a deletion of chunks
\* failed during the call.
C34_NoOrphanChunks ==
    [][(/\ clock' # clock
        /\ last'.kind = "returned"
        /\ NoOrphanChunks(favorite_videos, vectorstore))
       => NoOrphanChunks(favorite_videos', vectorstore')]_vars

\* the chunks of the store that carry this video id and this chunk_index
CopiesOf(store, bvid, i) ==
    BagCardinality([d \in {x \in DOMAIN store : x.bvid = bvid /\ x.chunk_index = i}
                       |-> store[d]])

\* both concurrent syncs have committed
BothSynced == \A f \in Folders : indexers[f].pc = "done"

\* C35: No duplicate chunks under concurrency.  When the syncs of two
\* collections that both newly contain video A have run concurrently and both
\* have completed, each chunk_index occurs at most once among the chunks that
\* carry the id of A.
C35_NoDuplicateChunks ==
    BothSynced =>
        \A d \in DOMAIN vectorstore :
            d.bvid = "A" => CopiesOf(vectorstore, "A", d.chunk_index) <= 1

\* C36: The processed flag means indexed.  When a completed sync turns the
\* is_processed flag of a video's cache entry from false to true, the video's
\* content was added to the vector store in that call: the store holds at
\* least one chunk of the video afterwards.
C36_ProcessedMeansIndexed ==
    [][(clock' # clock /\ last'.kind = "returned")
       => \A v \in Videos :
            (~video_cache[v].is_processed /\ video_cache'[v].is_processed)
                => ChunkCount(vectorstore', v) > 0]_vars

\* the moves of a build task record's status that the order allows
StatusMoves ==
    {<<"pending", "running">>, <<"running", "completed">>, <<"running", "failed">>}

\* C37: Task status order.  The status of a build task record only moves
\* pending -> running -> completed or failed: once it is completed or failed
\* it never changes, and whenever it is completed the progress is 100.
C37_TaskStatusOrder ==
    [][batch.caller = BUILD =>
          /\ batch'.status # batch.status
                => <<batch.status, batch'.status>> \in StatusMoves
          /\ batch'.status = "completed" => batch'.progress = 100]_vars

\* C38: Processed never exceeds total.  In every state of a build task
\* record, processed_videos is at most total_videos, whatever the number of
\* collections of the build and of target videos of each collection.
C38_ProcessedAtMostTotal ==
    batch.caller = BUILD => batch.processed_videos <= batch.total_videos

\* a build task that is over: its status is final and its client is closed
BuildOver == batch.status \in {"completed", "failed"} /\ batch.closed

\* C39: Build termination.  When every external call returns or raises, a
\* build task that is pending or running is eventually over with status
\* completed or failed; a build of no collection is completed with progress
\* 100 by the first step that follows the start of the task; and a failed
\* record carries the error text in its message.
C39_BuildTerminates ==
    /\ (batch.caller = BUILD /\ batch.status \in {"pending", "running"})
          ~> BuildOver
    /\ [][(/\ batch.caller = BUILD /\ batch.requested = <<>>
           /\ batch.status = "running" /\ batch'.status # "failed")
          => batch'.status = "completed" /\ batch'.progress = 100]_vars
    /\ [](batch.caller = BUILD /\ batch.status = "failed"
             => batch.message = MSG_ERROR)

\* a build over two collections ran to completion, and its client is closed
C39_Witness ==
    /\ batch.caller = BUILD
    /\ Len(batch.requested) = 2
    /\ batch.synced = batch.requested
    /\ batch.status = "completed" /\ batch.closed

\* C40: Exclusion acts as removal.  After a sync that a build with an
\* exclusion list completed for a collection, no excluded video is a member of
\* the collection; an excluded video that was a member before is counted in
\* removed, and its chunks are gone when no other collection references it.
C40_ExclusionRemoves ==
    [][(/\ batch.caller = BUILD
        /\ clock' # clock
        /\ last'.kind = "returned"
        /\ last'.result.message = MSG_DONE)
       => \A v \in batch.exclude :
            LET id == favorite_folders'[last'.folder_id].id
                members == bvids_of(favorite_videos', id)
            IN /\ v \notin members
               /\ v \in last'.existing
                     => /\ last'.result.removed
                              = Cardinality(last'.existing \ members)
                        /\ other_count(favorite_videos', v, id) = 0
                              => ChunkCount(vectorstore', v) = 0]_vars

==============================================================================
